---- MODULE Spec2Model ----
(***************************************************************************)
(* Deployment, rollback, health verification and backup/restore tooling of *)
(* the Todo API repository, modelled as state machines.                    *)
(*                                                                         *)
(*   SpecRollback : scripts/rollback.sh, one invocation                    *)
(*   SpecDeploy   : the deployment script, one invocation, and GET /health *)
(*   SpecWait     : waitForApplicationReady of the integration tests       *)
(*   SpecBackup   : scripts/backup-restore.sh, successive invocations      *)
(*   SpecSchedule : the same, with the scheduled backup job it installs    *)
(*   SpecConcurrent : a deploy and/or a restore run at once on one target  *)
(*   SpecConnect  : DatabaseConnection of src/utils/database.js            *)
(*   SpecTodos    : the HTTP interface of src/server.js, routes/todos.js   *)
(*   SpecHealth   : the health check script, one invocation                *)
(*                                                                         *)
(* Shell text is a sequence of lines; a line is a sequence of atoms, the   *)
(* atom ":" being the colon character, so that command substitution,       *)
(* string interpolation and `cut -d: -f2` are computed as the shell        *)
(* computes them.                                                          *)
(***************************************************************************)
EXTENDS Integers, Sequences, FiniteSets, TLC

VARIABLES
    \* ---- the registry and the target host (shared by rollback and deploy)
    registryTags,     \* Docker Hub tag names of the repository, newest first
    hostImage,        \* image of the running application container, or NoImage
    hostImage0,       \* hostImage when the tool was invoked
    endpoint,         \* what answers GET /health on the target
    saw200,           \* whether a health poll of this run received HTTP 200
    \* ---- scripts/rollback.sh
    rb_pc,            \* position in the script
    rb_tagArg,        \* the tag given with --tag, empty when none is given
    current_tag,      \* $current_tag
    ROLLBACK_TAG,     \* $ROLLBACK_TAG
    rb_REPLY,         \* $REPLY of the confirmation prompt
    attempt,          \* $attempt of the post-rollback health loop
    rb_polls,         \* health polls performed by this run
    rb_playbooks,     \* ansible-playbook runs performed by this run
    rb_prompted,      \* whether the confirmation prompt was shown
    rb_log,           \* the messages this run has printed
    rb_exit,          \* exit status, meaningful once rb_pc = "exit"
    \* ---- the deployment script
    dp_pc,            \* position in the script
    DOCKER_IMAGE_TAG, \* $DOCKER_IMAGE_TAG, the image to deploy
    dp_playbooks,     \* ansible-playbook deployment runs performed by this run
    dp_polls,         \* health polls performed by this run
    dp_log,           \* the messages this run has printed, in order
    dp_exit,          \* exit status, meaningful once dp_pc = "exit"
    \* ---- waitForApplicationReady
    wa_pc,            \* "loop", "returned" or "thrown"
    wa_maxAttempts,   \* the maxAttempts argument
    wa_attempt,       \* the loop variable
    wa_polls,         \* axios.get calls made
    \* ---- the data store and the backup directory of the target
    db,               \* ids of the records in the todoapp database
    archives,         \* per backup name: << >>, or <<a>> for $BACKUP_DIR/<name>.tar.gz
    hostDir,          \* per backup name: << >>, or <<data>> for $BACKUP_DIR/<name>
    containerTmp,     \* per backup name: << >>, or <<data>> for /tmp/<name> in the container
    crontab,          \* the crontab of the target's user, as a list of lines
    cron_runs,        \* runs of backup-db.sh by cron so far
    \* ---- scripts/backup-restore.sh
    br_pc,            \* position in the script
    br_runs,          \* invocations started so far
    br_ACTION,           \* $ACTION
    BACKUP_NAME,      \* $BACKUP_NAME
    br_REPLY,         \* $REPLY of the confirmation prompt
    old_backups,      \* $old_backups of cleanup_backups, as a set of names
    br_steps,         \* the destructive remote steps this run has issued
    br_log,           \* the messages this run has printed
    deleted_count,    \* $deleted_count of cleanup_backups
    br_listing,       \* the rows list_backups has printed, as backup names in order
    br_exit,          \* exit status, meaningful once br_pc = "exit"
    \* ---- two invocations at once against the same target
    cc_pc,            \* per invocation: its position
    cc_tool,          \* per invocation: "deploy" or "restore"
    cc_image,         \* per invocation: the image a deploy was asked to deploy
    \* ---- the application: its database connection and its HTTP interface
    mongo,            \* whether the MongoDB server accepts connections and commands
    cn_pc,            \* position of the connect call in progress
    cn_calls,         \* calls of connect made from outside so far
    connectionRetries, \* this.connectionRetries
    cn_isConnected,   \* this.isConnected
    cn_attempts,      \* mongoose.connect invocations of the current connect call
    cn_slept,         \* milliseconds the current connect call has waited in timers
    cn_error,         \* message of the error the connect call threw
    cn_health,        \* status of the last healthCheck
    todos,            \* the todos collection, in order of creation
    td_made,          \* documents created so far
    td_put,           \* the PUT awaiting its update, if any
    td_res,           \* the last response sent
    td_count,         \* responses sent so far
    \* ---- the health check script
    hk_pc,            \* position in the script
    hk_target,        \* the deployment and machine it runs against
    HEALTH_CHECKS,    \* $HEALTH_CHECKS
    FAILED_CHECKS,    \* $FAILED_CHECKS
    hk_log,           \* the closing messages the script has printed
    hk_exit,          \* exit status, meaningful once hk_pc = "exit"
    \* ---- the retry helpers of the integration tests
    rt_pc,            \* position in the helper
    rt_helper,        \* which helper was called
    rt_maxAttempts,   \* maxAttempts
    rt_attempt,       \* attempt
    rt_outcomes,      \* per invocation of the operation in this call: whether it succeeded
    rt_delays,        \* the timer delays this call has waited, in order
    rt_runs           \* calls of a helper so far

rbVars == <<rb_pc, rb_tagArg, current_tag, ROLLBACK_TAG, rb_REPLY, attempt, rb_polls,
            rb_playbooks, rb_prompted, rb_log, rb_exit>>
dpVars == <<dp_pc, DOCKER_IMAGE_TAG, dp_playbooks, dp_polls, dp_log, dp_exit>>
waVars == <<wa_pc, wa_maxAttempts, wa_attempt, wa_polls>>
envVars == <<registryTags, hostImage, hostImage0, endpoint, saw200>>
storeVars == <<db, archives, hostDir, containerTmp, crontab, cron_runs>>
brVars == <<br_pc, br_runs, br_ACTION, BACKUP_NAME, br_REPLY, old_backups, br_steps, br_log,
            deleted_count, br_listing, br_exit>>
ccVars == <<cc_pc, cc_tool, cc_image>>
cnVars == <<cn_pc, cn_calls, connectionRetries, cn_isConnected, cn_attempts, cn_slept,
            cn_error, cn_health>>
tdVars == <<todos, td_made, td_put, td_res, td_count>>
hkVars == <<hk_pc, hk_target, HEALTH_CHECKS, FAILED_CHECKS, hk_log, hk_exit>>
rtVars == <<rt_pc, rt_helper, rt_maxAttempts, rt_attempt, rt_outcomes, rt_delays, rt_runs>>
svcVars == <<mongo, cnVars, tdVars, hkVars, rtVars>>
vars == <<envVars, rbVars, dpVars, waVars, storeVars, brVars, ccVars, svcVars>>

(***************************************************************************)
(* Bounds of the model                                                     *)
(***************************************************************************)
MaxTags == 3          \* length of the registry's tag list
MaxWaitAttempts == 3  \* largest maxAttempts given to waitForApplicationReady
MaxRecords == 2       \* number of distinct records the data store may hold
MaxRuns == 2          \* invocations of backup-restore.sh in one behaviour
MaxCronRuns == 1      \* runs of the scheduled backup job in one behaviour
MaxConnectCalls == 2  \* calls of DatabaseConnection.connect in one behaviour
MaxTodos == 2         \* todos created in one behaviour
MaxRequests == 2      \* HTTP requests answered in one behaviour

(***************************************************************************)
(* Shell text                                                              *)
(***************************************************************************)
Colon == ":"

\* a one-line text holding a single word
Word(w) == << <<w>> >>

\* "$(...)": the captured standard output with trailing newlines removed
RECURSIVE CmdSubst(_)
CmdSubst(text) ==
    IF text = << >> THEN << >>
    ELSE IF text[Len(text)] = << >> THEN CmdSubst(SubSeq(text, 1, Len(text) - 1))
    ELSE text

\* "pre${text}post" written on one line of a script: text may span lines
Interpolate(pre, text, post) ==
    IF Len(text) = 0 THEN << pre \o post >>
    ELSE IF Len(text) = 1 THEN << pre \o text[1] \o post >>
    ELSE << pre \o text[1] >> \o SubSeq(text, 2, Len(text) - 1)
            \o << text[Len(text)] \o post >>

\* positions of the colon atoms of a line
ColonAt(line) == { i \in 1..Len(line) : line[i] = Colon }

\* cut -d':' -f2 on one line: a line without the delimiter is printed whole
CutField2(line) ==
    IF ColonAt(line) = {} THEN line
    ELSE LET first == CHOOSE i \in ColonAt(line) : \A j \in ColonAt(line) : i <= j
             later == { i \in ColonAt(line) : i > first }
             stop  == IF later = {} THEN Len(line) + 1
                      ELSE CHOOSE i \in later : \A j \in later : i <= j
         IN  SubSeq(line, first + 1, stop - 1)

\* echo "$text" | cut -d':' -f2
Cut(text) == [ i \in 1..Len(text) |-> CutField2(text[i]) ]

\* head -1
Head1(text) == IF text = << >> THEN << >> ELSE << text[1] >>

\* log_info "$1": echo -e "${GREEN}[INFO]${NC} $1", written to standard output
log_info(msg) == Interpolate(<<"[INFO] ">>, msg, << >>)

(***************************************************************************)
(* The registry and the target host                                        *)
(***************************************************************************)
TagNames == {"latest", "v1.0.0", "v1.1.0", "v1.2.0"}
LatestTag == "latest"
DockerRepo == "myuser/todo-api"       \* $DOCKER_USERNAME/$APP_NAME
NoImage == << >>

\* "$DOCKER_USERNAME/$APP_NAME:$tag" as one line
ImageLine(tag) == <<DockerRepo, Colon, tag>>

RECURSIVE SeqsOver(_, _)
SeqsOver(S, n) ==
    IF n = 0 THEN { << >> }
    ELSE LET shorter == SeqsOver(S, n - 1)
         IN  shorter \cup { Append(q, x) : q \in shorter, x \in S }

NoDup(q) == \A i, j \in 1..Len(q) : i # j => q[i] # q[j]

\* the tag lists the registry may hold, newest first
TagLists == { q \in SeqsOver(TagNames, MaxTags) : NoDup(q) }

\* images a target may be running when a tool is invoked
HostImages == { NoImage } \cup { ImageLine(t) : t \in TagNames }

(***************************************************************************)
(* GET /health of the application, and what a poll of the target returns   *)
(***************************************************************************)
\* DatabaseConnection.healthCheck: the status it reports
healthCheck(isConnected, pingOk) ==
    IF ~isConnected THEN "disconnected"
    ELSE IF pingOk THEN "healthy"
    ELSE "unhealthy"

\* app.get('/health'): healthCheck never throws, so the handler always answers
\* 200; the body carries no top-level "status" field
GetHealth(isConnected, pingOk) ==
    [code |-> 200, status |-> "absent", dbStatus |-> healthCheck(isConnected, pingOk)]

\* what may answer GET /health on the target: nothing, the application in one of
\* its database states, or another server answering with a fixed status code
EndpointStates ==
    {"down", "app_db_ok", "app_db_disconnected", "app_db_ping_fails",
     "other_204", "other_503"}

\* the response a poll of GET /health receives (code 0: no HTTP response)
Response(e) ==
    CASE e = "app_db_ok"           -> GetHealth(TRUE, TRUE)
      [] e = "app_db_disconnected" -> GetHealth(FALSE, TRUE)
      [] e = "app_db_ping_fails"   -> GetHealth(TRUE, FALSE)
      [] e = "other_204" -> [code |-> 204, status |-> "absent", dbStatus |-> "absent"]
      [] e = "other_503" -> [code |-> 503, status |-> "absent", dbStatus |-> "absent"]
      [] OTHER           -> [code |-> 0, status |-> "absent", dbStatus |-> "absent"]

\* curl -f -s URL > /dev/null: fails without a response and on HTTP status >= 400;
\* the body is discarded
CurlF(r) == r.code # 0 /\ r.code < 400

\* a poll of GET /health that finds the target in state e
Polled(e) ==
    /\ endpoint' = e
    /\ saw200' = (saw200 \/ Response(e).code = 200)

(***************************************************************************)
(* scripts/rollback.sh                                                     *)
(***************************************************************************)
max_attempts == 6
PageSize == 10

Min(a, b) == IF a <= b THEN a ELSE b

\* docker ps --format 'table {{.Image}}' on the target: a header line, then the
\* image of every running container
DockerPs(image) ==
    << <<"IMAGE">> >> \o (IF image = NoImage THEN << >> ELSE << image >>)
        \o << <<"mongo", Colon, "4.4">> >>

\* grep '$APP_NAME': the lines that contain todo-api
GrepApp(text) == SelectSeq(text, LAMBDA line : \E i \in 1..Len(line) : line[i] = DockerRepo)

\* get_current_tag: everything the function writes to standard output, which is
\* its log line followed by the ssh pipeline's output, or by "unknown" when ssh fails
get_current_tag(image, sshOk) ==
    log_info(Word("Getting current running image tag..."))
        \o (IF sshOk THEN Head1(GrepApp(DockerPs(image))) ELSE Word("unknown"))

\* jq -r --arg current "$c" '.results[] | select(.name != "latest" and
\* .name != $current) | .name' over the first page of the tag query
JqSelect(tags, current) ==
    LET page  == SubSeq(tags, 1, Min(PageSize, Len(tags)))
        names == SelectSeq(page, LAMBDA n : n # LatestTag /\ Word(n) # current)
    IN  [ i \in 1..Len(names) |-> <<names[i]>> ]

\* get_previous_tag: everything the function writes to standard output when the
\* tag query succeeds, which is its log line followed by jq ... | head -1
get_previous_tag(tags, current) ==
    log_info(Interpolate(<<"Finding previous tag (excluding ">>, current, <<")...">>))
        \o Head1(JqSelect(tags, current))

\* mutant of RollbackConfirmed: anything but "n" confirms (a default of yes)
RollbackConfirmedUnlessNo(reply) == reply # "n"

\* [[ $REPLY =~ ^[Yy]$ ]]
RollbackConfirmed(reply) == reply \in {"y", "Y"}

\* what `read -n 1 -r` may leave in $REPLY; "EOF" stands for a failed read
RollbackReplies == {"y", "Y", "n", "", "EOF"}

\* mutant of TagExists: curl without -f, which succeeds on the registry's 404 too
TagRequestAnswered(tags, tagText) == TRUE

\* curl -f -s .../tags/$ROLLBACK_TAG/: the tag exists in the registry
TagExists(tags, tagText) == \E i \in 1..Len(tags) : tagText = Word(tags[i])

RbExit(code) ==
    /\ rb_pc' = "exit"
    /\ rb_exit' = code

\* the messages an action adds to the output of the run
RbLog(msgs) == rb_log' = rb_log \cup msgs

\* lines 289-297: the summary naming $current_tag, $ROLLBACK_IMAGE and the health
\* check's outcome
RollbackSummary == "=== ROLLBACK SUMMARY ==="

\* lines 214-216: current_tag=$(get_current_tag "$SERVER_HOST" "$SERVER_USER")
RbGetCurrentTag ==
    /\ rb_pc = "start"
    /\ \E sshOk \in BOOLEAN :
         current_tag' = CmdSubst(get_current_tag(hostImage, sshOk))
    /\ rb_pc' = "determine"
    /\ UNCHANGED <<envVars, rb_tagArg, ROLLBACK_TAG, rb_REPLY, attempt, rb_polls,
                   rb_playbooks, rb_prompted, rb_log, rb_exit, dpVars, waVars, ccVars, svcVars, storeVars, brVars>>

\* lines 218-235: determine the rollback tag
RbDetermineTag ==
    /\ rb_pc = "determine"
    /\ IF ROLLBACK_TAG # << >>
       THEN /\ rb_pc' = "confirm"
            /\ UNCHANGED <<ROLLBACK_TAG, rb_exit>>
       ELSE \E registryOk \in BOOLEAN :
              LET current_tag_only == CmdSubst(Cut(current_tag))
                  found == CmdSubst(get_previous_tag(registryTags, current_tag_only))
              IN  IF ~registryOk
                  THEN \* get_previous_tag returns 1: set -e ends the script
                       /\ RbExit(1)
                       /\ UNCHANGED ROLLBACK_TAG
                  ELSE IF found = << >>
                  THEN /\ RbExit(1)
                       /\ ROLLBACK_TAG' = found
                  ELSE /\ rb_pc' = "confirm"
                       /\ ROLLBACK_TAG' = found
                       /\ UNCHANGED rb_exit
    /\ UNCHANGED <<envVars, rb_tagArg, current_tag, rb_REPLY, attempt, rb_polls,
                   rb_playbooks, rb_prompted, rb_log, dpVars, waVars, ccVars, svcVars, storeVars, brVars>>

\* lines 240-253: the confirmation prompt
RbConfirm ==
    /\ rb_pc = "confirm"
    /\ rb_prompted' = TRUE
    /\ \E reply \in RollbackReplies :
         /\ rb_REPLY' = reply
         /\ IF reply = "EOF" THEN RbExit(1) /\ UNCHANGED rb_log
            ELSE IF ~RollbackConfirmed(reply)
                 THEN RbLog({"Rollback cancelled by user"}) /\ RbExit(0)
            ELSE rb_pc' = "verify" /\ UNCHANGED <<rb_exit, rb_log>>
    /\ UNCHANGED <<envVars, rb_tagArg, current_tag, ROLLBACK_TAG, attempt, rb_polls,
                   rb_playbooks, dpVars, waVars, ccVars, svcVars, storeVars, brVars>>

\* lines 258-263: verify that the target image exists
RbVerifyImage ==
    /\ rb_pc = "verify"
    /\ \E registryOk \in BOOLEAN :
         IF registryOk /\ TagExists(registryTags, ROLLBACK_TAG)
         THEN rb_pc' = "playbook" /\ UNCHANGED <<rb_exit, rb_log>>
         ELSE RbLog({"Target image tag not found in Docker Hub"}) /\ RbExit(1)
    /\ UNCHANGED <<envVars, rb_tagArg, current_tag, ROLLBACK_TAG, rb_REPLY, attempt,
                   rb_polls, rb_playbooks, rb_prompted, dpVars, waVars, ccVars, svcVars, storeVars, brVars>>

\* lines 265-281 and 314-317: ansible-playbook with docker_image_tag=$ROLLBACK_IMAGE
RbPlaybook ==
    /\ rb_pc = "playbook"
    /\ rb_playbooks' = rb_playbooks + 1
    /\ \E ok \in BOOLEAN :
         IF ok
         THEN /\ hostImage' = ImageLine(ROLLBACK_TAG[1][1])
              /\ RbLog({"Rollback deployment completed!"})
              /\ rb_pc' = "health"
              /\ attempt' = 1
              /\ UNCHANGED rb_exit
         ELSE /\ \E left \in {hostImage, ImageLine(ROLLBACK_TAG[1][1])} : hostImage' = left
              /\ RbLog({"Rollback deployment failed!"})
              /\ RbExit(1)
              /\ UNCHANGED attempt
    /\ UNCHANGED <<registryTags, hostImage0, endpoint, saw200, rb_tagArg, current_tag,
                   ROLLBACK_TAG, rb_REPLY, rb_polls, rb_prompted, dpVars, waVars, ccVars, svcVars, storeVars, brVars>>

\* lines 283-312: one iteration of the post-rollback health check loop, and the
\* exit that follows the last one
RbHealthPoll ==
    /\ rb_pc = "health"
    /\ attempt <= max_attempts
    /\ rb_polls' = rb_polls + 1
    /\ \E e \in EndpointStates :
         /\ Polled(e)
         /\ IF CurlF(Response(e))
            THEN /\ RbLog({"Health check passed - Rollback successful!", RollbackSummary})
                 /\ RbExit(0)
                 /\ UNCHANGED attempt
            ELSE /\ attempt' = attempt + 1
                 /\ IF attempt + 1 <= max_attempts
                    THEN UNCHANGED <<rb_pc, rb_exit, rb_log>>
                    ELSE RbLog({"Health check failed after rollback"}) /\ RbExit(1)
    /\ UNCHANGED <<registryTags, hostImage, hostImage0, rb_tagArg, current_tag,
                   ROLLBACK_TAG, rb_REPLY, rb_playbooks, rb_prompted, dpVars, waVars, ccVars, svcVars, storeVars, brVars>>

\* the tag given with --tag / $ROLLBACK_TAG, empty when none is given
ExplicitTags == { << >>, Word("v1.0.0") }

\* the registry and the target when a tool is invoked
EnvInit ==
    /\ registryTags \in TagLists
    /\ hostImage \in HostImages
    /\ hostImage0 = hostImage
    /\ endpoint = "down"
    /\ saw200 = FALSE

RbInit ==
    /\ rb_pc = "start"
    /\ current_tag = << >>
    /\ rb_tagArg \in ExplicitTags
    /\ ROLLBACK_TAG = rb_tagArg
    /\ rb_REPLY = ""
    /\ attempt = 0
    /\ rb_polls = 0
    /\ rb_playbooks = 0
    /\ rb_prompted = FALSE
    /\ rb_log = {}
    /\ rb_exit = 0

RbNext ==
    \/ RbGetCurrentTag
    \/ RbDetermineTag
    \/ RbConfirm
    \/ RbVerifyImage
    \/ RbPlaybook
    \/ RbHealthPoll

RbIdle ==
    /\ rb_pc = "idle"
    /\ current_tag = << >>
    /\ rb_tagArg = << >>
    /\ ROLLBACK_TAG = << >>
    /\ rb_REPLY = ""
    /\ attempt = 0
    /\ rb_polls = 0
    /\ rb_playbooks = 0
    /\ rb_prompted = FALSE
    /\ rb_log = {}
    /\ rb_exit = 0

(***************************************************************************)
(* The deployment script                                                   *)
(***************************************************************************)
DpExit(code) ==
    /\ dp_pc' = "exit"
    /\ dp_exit' = code

\* the messages an action appends to the output of the run
DpLog(msg) == dp_log' = Append(dp_log, msg)

\* lines 103-151: required parameters, ansible directory, inventory file and
\* ansible-playbook are present, or the script exits 1
DpValidate ==
    /\ dp_pc = "start"
    /\ \E ok \in BOOLEAN :
         IF ok THEN dp_pc' = "ssh" /\ UNCHANGED <<dp_exit, dp_log>>
         ELSE DpLog("Validation failed") /\ DpExit(1)
    /\ UNCHANGED <<envVars, DOCKER_IMAGE_TAG, dp_playbooks, dp_polls, rbVars, waVars, ccVars, svcVars, storeVars, brVars>>

\* mutant of DpSshCheck: the failed connectivity test is reported and the script
\* goes on
DpSshCheckReportOnly ==
    /\ dp_pc = "ssh"
    /\ \E reachable \in BOOLEAN :
         /\ DpLog(IF reachable THEN "SSH connectivity test passed" ELSE "Cannot connect via SSH")
         /\ dp_pc' = "syntax"
         /\ UNCHANGED dp_exit
    /\ UNCHANGED <<envVars, DOCKER_IMAGE_TAG, dp_playbooks, dp_polls, rbVars, waVars, ccVars, svcVars, storeVars, brVars>>

\* lines 153-163: the SSH connectivity check
DpSshCheck ==
    /\ dp_pc = "ssh"
    /\ \E reachable \in BOOLEAN :
         IF reachable
         THEN /\ DpLog("SSH connectivity test passed")
              /\ dp_pc' = "syntax"
              /\ UNCHANGED dp_exit
         ELSE /\ DpLog("Cannot connect via SSH")
              /\ DpExit(1)
    /\ UNCHANGED <<envVars, DOCKER_IMAGE_TAG, dp_playbooks, dp_polls, rbVars, waVars, ccVars, svcVars, storeVars, brVars>>

\* lines 165-172: ansible-playbook --syntax-check
DpSyntaxCheck ==
    /\ dp_pc = "syntax"
    /\ \E ok \in BOOLEAN :
         IF ok
         THEN /\ DpLog("Ansible playbook syntax validation passed")
              /\ dp_pc' = "playbook"
              /\ UNCHANGED dp_exit
         ELSE /\ DpLog("Ansible playbook syntax validation failed")
              /\ DpExit(1)
    /\ UNCHANGED <<envVars, DOCKER_IMAGE_TAG, dp_playbooks, dp_polls, rbVars, waVars, ccVars, svcVars, storeVars, brVars>>

\* mutant of DpPlaybook: the health check follows the playbook whatever its status
DpPlaybookThenHealth ==
    /\ dp_pc = "playbook"
    /\ dp_playbooks' = dp_playbooks + 1
    /\ \E ok \in BOOLEAN :
         /\ IF ok
            THEN hostImage' = DOCKER_IMAGE_TAG /\ DpLog("Deployment completed successfully!")
            ELSE (\E left \in {hostImage, DOCKER_IMAGE_TAG} : hostImage' = left)
                 /\ DpLog("Deployment failed!")
         /\ dp_pc' = "health"
         /\ UNCHANGED dp_exit
    /\ UNCHANGED <<registryTags, hostImage0, endpoint, saw200, DOCKER_IMAGE_TAG,
                   dp_polls, rbVars, waVars, ccVars, svcVars, storeVars, brVars>>

\* lines 174-193 and 214-217: ansible-playbook site.yml with
\* docker_image_tag=$DOCKER_IMAGE_TAG, which applies the configuration and
\* activates the image on the target
DpPlaybook ==
    /\ dp_pc = "playbook"
    /\ dp_playbooks' = dp_playbooks + 1
    /\ \E ok \in BOOLEAN :
         IF ok
         THEN /\ hostImage' = DOCKER_IMAGE_TAG
              /\ DpLog("Deployment completed successfully!")
              /\ dp_pc' = "health"
              /\ UNCHANGED dp_exit
         ELSE /\ \E left \in {hostImage, DOCKER_IMAGE_TAG} : hostImage' = left
              /\ DpLog("Deployment failed!")
              /\ DpExit(1)
    /\ UNCHANGED <<registryTags, hostImage0, endpoint, saw200, DOCKER_IMAGE_TAG,
                   dp_polls, rbVars, waVars, ccVars, svcVars, storeVars, brVars>>

\* lines 195-212: the single health check; the script then ends, with status 0
\* when the check passed
DpHealthCheck ==
    /\ dp_pc = "health"
    /\ dp_polls' = dp_polls + 1
    /\ \E e \in EndpointStates :
         /\ Polled(e)
         /\ IF CurlF(Response(e))
            THEN DpLog("Health check passed") /\ DpExit(0)
            ELSE DpLog("Health check failed") /\ DpExit(1)
    /\ UNCHANGED <<registryTags, hostImage, hostImage0, DOCKER_IMAGE_TAG, dp_playbooks,
                   rbVars, waVars, ccVars, svcVars, storeVars, brVars>>

\* the exit status of a bash script ended by SIGINT or SIGTERM
SignalStatuses == {130, 143}

\* lines 130-139 and the shell's handling of a signal: the script installs only
\* the EXIT trap, which removes the temporary inventory.  A SIGINT or SIGTERM ends
\* the script with the signal's status and no message about the deployment.  When
\* it arrives while ansible-playbook runs, the playbook either receives it too
\* (the terminal's interrupt goes to the whole foreground group) and stops
\* part-way, or does not (kill of the script's pid) and goes on without the script.
DpCancel ==
    /\ dp_pc \in {"start", "ssh", "syntax", "playbook", "health"}
    /\ \E status \in SignalStatuses : dp_exit' = status
    /\ DpLog("Cleaned up temporary inventory file")
    /\ IF dp_pc = "playbook"
       THEN /\ dp_playbooks' = dp_playbooks + 1
            /\ \/ /\ dp_pc' = "exit"
                  /\ \E left \in {hostImage, DOCKER_IMAGE_TAG} : hostImage' = left
               \/ /\ dp_pc' = "orphan"
                  /\ UNCHANGED hostImage
       ELSE /\ dp_pc' = "exit"
            /\ UNCHANGED <<dp_playbooks, hostImage>>
    /\ UNCHANGED <<registryTags, hostImage0, endpoint, saw200, DOCKER_IMAGE_TAG, dp_polls,
                   rbVars, waVars, ccVars, svcVars, storeVars, brVars>>

\* the ansible-playbook run that outlived its script comes to its end
DpOrphanPlaybook ==
    /\ dp_pc = "orphan"
    /\ dp_pc' = "exit"
    /\ \E left \in {hostImage, DOCKER_IMAGE_TAG} : hostImage' = left
    /\ UNCHANGED <<registryTags, hostImage0, endpoint, saw200, DOCKER_IMAGE_TAG,
                   dp_playbooks, dp_polls, dp_log, dp_exit, rbVars, waVars, ccVars, svcVars, storeVars,
                   brVars>>

DpInit ==
    /\ dp_pc = "start"
    /\ DOCKER_IMAGE_TAG \in { ImageLine(t) : t \in TagNames }
    /\ dp_playbooks = 0
    /\ dp_polls = 0
    /\ dp_log = << >>
    /\ dp_exit = 0

DpIdle ==
    /\ dp_pc = "idle"
    /\ DOCKER_IMAGE_TAG = NoImage
    /\ dp_playbooks = 0
    /\ dp_polls = 0
    /\ dp_log = << >>
    /\ dp_exit = 0

DpNext ==
    \/ DpValidate
    \/ DpSshCheck
    \/ DpSyntaxCheck
    \/ DpPlaybook
    \/ DpHealthCheck
    \/ DpCancel
    \/ DpOrphanPlaybook

(***************************************************************************)
(* waitForApplicationReady(serverIp, maxAttempts = 20)                     *)
(***************************************************************************)
DefaultMaxAttempts == 20

\* axios.get resolves for a response with a 2xx status and throws otherwise
\* (no response, timeout, any other status)
AxiosResolves(r) == r.code >= 200 /\ r.code < 300

\* one iteration of the for loop, and the return that follows the last one
WaPoll ==
    /\ wa_pc = "loop"
    /\ wa_attempt <= wa_maxAttempts
    /\ wa_polls' = wa_polls + 1
    /\ \E e \in EndpointStates :
         /\ Polled(e)
         /\ LET r == Response(e)
                further == /\ wa_attempt' = wa_attempt + 1
                           /\ wa_pc' = IF wa_attempt + 1 <= wa_maxAttempts
                                       THEN "loop" ELSE "returned"
            IN  IF AxiosResolves(r)
                THEN IF r.code = 200
                     THEN wa_pc' = "returned" /\ UNCHANGED wa_attempt
                     ELSE further
                ELSE IF wa_attempt = wa_maxAttempts
                     THEN wa_pc' = "thrown" /\ UNCHANGED wa_attempt
                     ELSE further
    /\ UNCHANGED <<registryTags, hostImage, hostImage0, wa_maxAttempts, rbVars, dpVars,
                   storeVars, brVars, ccVars, svcVars>>

WaInit ==
    /\ wa_pc = "loop"
    /\ wa_maxAttempts \in (1..MaxWaitAttempts) \cup {DefaultMaxAttempts}
    /\ wa_attempt = 1
    /\ wa_polls = 0

WaIdle ==
    /\ wa_pc = "idle"
    /\ wa_maxAttempts = 0
    /\ wa_attempt = 0
    /\ wa_polls = 0

\* a target running the application, for the tools that only poll it
EnvPolled ==
    /\ registryTags = << >>
    /\ hostImage \in { ImageLine(t) : t \in TagNames }
    /\ hostImage0 = hostImage
    /\ endpoint = "down"
    /\ saw200 = FALSE

(***************************************************************************)
(* scripts/backup-restore.sh                                               *)
(***************************************************************************)
Records == 1..MaxRecords

\* backup names, given with --name or generated; both match the scheduled job's
\* -name "backup_*.tar.gz"
BackupNames == {"b1", "b2"}
Absent == << >>

\* $remote_script of setup_backup_schedule
remote_script == "/opt/todo-api/backup-db.sh"

\* crontab lines, each a list of words: the one setup_backup_schedule writes, and
\* a job of the same user that has nothing to do with backups
ScheduleLine == <<"0 2 * * *", remote_script, ">> /var/log/todo-api-backup.log 2>&1">>
UnrelatedLine == <<"0 5 * * 0", "/usr/bin/certbot renew">>

\* mutant of GrepV: nothing is filtered out
KeepLines(lines, pattern) == lines

\* grep -v '<pattern>': the lines that do not contain the pattern
GrepV(lines, pattern) ==
    SelectSeq(lines, LAMBDA l : \A k \in 1..Len(l) : l[k] # pattern)

\* (crontab -l 2>/dev/null | grep -v '$remote_script'; echo '0 2 * * * ...') | crontab -
InstallSchedule(tab) == Append(GrepV(tab, remote_script), ScheduleLine)

\* whether the crontab of the target runs backup-db.sh
cronJob ==
    \E i \in 1..Len(crontab) : \E k \in 1..Len(crontab[i]) : crontab[i][k] = remote_script

\* an archive file <name>.tar.gz: the dump it holds, whether find -mtime
\* +$RETENTION_DAYS matches it, and whether tar wrote it to the end
Archive(data, old) == << [data |-> data, old |-> old, complete |-> TRUE] >>

\* what a tar -czf that fails after opening its output leaves behind
PartialArchive(data) == << [data |-> data, old |-> FALSE, complete |-> FALSE] >>

\* mutant of RestoreConfirmed: the reply is matched as the other prompts match it
RestoreConfirmedByInitial(reply) == reply \in {"yes", "y", "YES"}

\* [[ "$REPLY" != "yes" ]] is false
RestoreConfirmed(reply) == reply = "yes"

\* [[ $REPLY =~ ^[Yy]$ ]]
CleanupConfirmed(reply) == reply \in {"y", "Y"}

\* what read may leave in $REPLY; "EOF" stands for a failed read
RestoreReplies == {"yes", "y", "YES", "", "EOF"}
CleanupReplies == {"y", "Y", "n", "", "EOF"}

\* mutant of FindOld: the -mtime test is left out
FindAnyAge(arch) == { n \in BackupNames : arch[n] # Absent }

\* find $backup_dir -name '*.tar.gz' -type f -mtime +$retention_days
FindOld(arch) == { n \in BackupNames : arch[n] # Absent /\ arch[n][1].old }

\* mutant of BackupFileExists: the directory is tested, as list and cleanup test it
BackupDirExists(arch, name) == TRUE

\* ssh "test -f $backup_dir/<name>.tar.gz"
BackupFileExists(arch, name) == arch[name] # Absent

\* mongorestore without --drop inserts the dumped records and keeps what is there
MongoRestore(current, dumped) == current \cup dumped

BrExit(code) ==
    /\ br_pc' = "exit"
    /\ br_exit' = code

\* a function returned 0: line 462 logs the success message and the script ends
BrCompleted == BrExit(0)

\* the messages an action adds to the output of the run
BrLog(msgs) == br_log' = br_log \cup msgs

\* line 462
OperationCompleted == "Operation completed successfully!"

\* a client of the application creates a record, between two invocations of the tool
CreateRecord ==
    /\ br_pc \in {"idle", "exit"}
    /\ \E r \in Records \ db : db' = db \cup {r}
    /\ UNCHANGED <<archives, hostDir, containerTmp, crontab, cron_runs, brVars, envVars,
                   rbVars, dpVars, waVars, ccVars, svcVars>>

\* time passes: the archives there are become older than the retention threshold
Age ==
    /\ \E n \in BackupNames : archives[n] # Absent /\ ~archives[n][1].old
    /\ archives' = [ n \in BackupNames |->
                       IF archives[n] = Absent THEN Absent
                       ELSE << [archives[n][1] EXCEPT !.old = TRUE] >> ]
    /\ UNCHANGED <<db, hostDir, containerTmp, crontab, cron_runs, brVars, envVars, rbVars,
                   dpVars, waVars, ccVars, svcVars>>

\* lines 366-460: argument parsing, check_server_access, check_mongodb_container
\* and the dispatch on $ACTION
BrStart ==
    /\ br_pc \in {"idle", "exit"}
    /\ br_runs < MaxRuns
    /\ br_runs' = br_runs + 1
    /\ br_REPLY' = ""
    /\ old_backups' = {}
    /\ br_steps' = {}
    /\ br_log' = {}
    /\ deleted_count' = 0
    /\ br_listing' = << >>
    /\ \E a \in {"backup", "restore", "list", "cleanup", "schedule"},
          n \in BackupNames, ok \in BOOLEAN :
         /\ br_ACTION' = a
         /\ BACKUP_NAME' = n
         /\ IF ok
            THEN /\ br_pc' = (CASE a = "backup" -> "dump"
                                [] a = "restore" -> "exists"
                                [] a = "list" -> "list"
                                [] a = "schedule" -> "schedule"
                                [] OTHER -> "find")
                 /\ br_exit' = 0
            ELSE BrExit(1)
    /\ UNCHANGED <<storeVars, envVars, rbVars, dpVars, waVars, ccVars, svcVars>>

\* create_backup, lines 127-135: mkdir -p, then mongodump into /tmp/<name>
BrDump ==
    /\ br_pc = "dump"
    /\ \E ok \in BOOLEAN :
         IF ok
         THEN /\ containerTmp' = [containerTmp EXCEPT ![BACKUP_NAME] = <<db>>]
              /\ br_pc' = "copy"
              /\ UNCHANGED <<br_exit, br_log>>
         ELSE /\ UNCHANGED containerTmp
              /\ BrLog({"Failed to create MongoDB dump"})
              /\ BrExit(1)
    /\ UNCHANGED <<db, archives, hostDir, crontab, cron_runs, br_runs, br_ACTION,
                   BACKUP_NAME, br_REPLY, old_backups, br_steps, deleted_count, br_listing, envVars,
                   rbVars, dpVars, waVars, ccVars, svcVars>>

\* create_backup, lines 137-142: docker cp from the container to the backup directory
BrCopyOut ==
    /\ br_pc = "copy"
    /\ \E ok \in BOOLEAN :
         IF ok
         THEN /\ hostDir' = [hostDir EXCEPT ![BACKUP_NAME] = containerTmp[BACKUP_NAME]]
              /\ br_pc' = "compress"
              /\ UNCHANGED <<br_exit, br_log>>
         ELSE /\ UNCHANGED hostDir
              /\ BrLog({"Failed to copy backup from container"})
              /\ BrExit(1)
    /\ UNCHANGED <<db, archives, containerTmp, crontab, cron_runs, br_runs, br_ACTION,
                   BACKUP_NAME, br_REPLY, old_backups, br_steps, deleted_count, br_listing, envVars,
                   rbVars, dpVars, waVars, ccVars, svcVars>>

\* create_backup, lines 144-164: tar -czf <name>.tar.gz && rm -rf <name>, then the
\* clean-up of the container, whose failure is only a warning.  tar creates its
\* output file when it starts: a tar that fails leaves either no new file (it
\* could not open the output) or a file holding part of the dump, written over
\* whatever archive had that name.
BrCompress ==
    /\ br_pc = "compress"
    /\ \E ok \in BOOLEAN, cleaned \in BOOLEAN :
         IF ok
         THEN /\ archives' = [archives EXCEPT
                                 ![BACKUP_NAME] = Archive(hostDir[BACKUP_NAME][1], FALSE)]
              /\ hostDir' = [hostDir EXCEPT ![BACKUP_NAME] = Absent]
              /\ containerTmp' = IF cleaned
                                 THEN [containerTmp EXCEPT ![BACKUP_NAME] = Absent]
                                 ELSE containerTmp
              /\ BrLog({"Backup created successfully!", OperationCompleted})
              /\ BrCompleted
         ELSE /\ \E left \in {archives[BACKUP_NAME]} \cup
                             { PartialArchive(part) : part \in SUBSET hostDir[BACKUP_NAME][1] } :
                    archives' = [archives EXCEPT ![BACKUP_NAME] = left]
              /\ UNCHANGED <<hostDir, containerTmp>>
              /\ BrLog({"Failed to compress backup"})
              /\ BrExit(1)
    /\ UNCHANGED <<db, crontab, cron_runs, br_runs, br_ACTION, BACKUP_NAME, br_REPLY,
                   old_backups, br_steps, deleted_count, br_listing, envVars, rbVars, dpVars, waVars, ccVars, svcVars>>

\* restore_backup, lines 175-183: test -f <name>.tar.gz
BrExists ==
    /\ br_pc = "exists"
    /\ IF BackupFileExists(archives, BACKUP_NAME)
       THEN br_pc' = "confirm" /\ UNCHANGED <<br_exit, br_log>>
       ELSE BrLog({"Backup file not found"}) /\ BrExit(1)
    /\ UNCHANGED <<storeVars, br_runs, br_ACTION, BACKUP_NAME, br_REPLY, old_backups,
                   br_steps, deleted_count, br_listing, envVars, rbVars, dpVars, waVars, ccVars, svcVars>>

\* restore_backup, lines 185-194: the confirmation prompt
BrRestoreConfirm ==
    /\ br_pc = "confirm"
    /\ \E reply \in RestoreReplies :
         /\ br_REPLY' = reply
         /\ IF reply = "EOF" THEN BrExit(1) /\ UNCHANGED br_log
            ELSE IF ~RestoreConfirmed(reply)
                 THEN BrLog({"Restore cancelled", OperationCompleted}) /\ BrCompleted
            ELSE br_pc' = "extract" /\ UNCHANGED <<br_exit, br_log>>
    /\ UNCHANGED <<storeVars, br_runs, br_ACTION, BACKUP_NAME, old_backups, br_steps,
                   deleted_count, br_listing, envVars, rbVars, dpVars, waVars, ccVars, svcVars>>

\* mutant of BrExtract: the database is dropped before the archive is extracted
BrDropThenExtract ==
    /\ br_pc = "extract"
    /\ db' = {}
    /\ \E extracted \in BOOLEAN, copied \in BOOLEAN :
         IF ~extracted \/ ~copied \/ archives[BACKUP_NAME] = Absent
         THEN /\ UNCHANGED <<hostDir, containerTmp>>
              /\ BrLog({"Failed to extract backup"})
              /\ BrExit(1)
         ELSE /\ hostDir' = [hostDir EXCEPT
                                ![BACKUP_NAME] = <<archives[BACKUP_NAME][1].data>>]
              /\ containerTmp' = [containerTmp EXCEPT
                                     ![BACKUP_NAME] = <<archives[BACKUP_NAME][1].data>>]
              /\ br_pc' = "drop"
              /\ UNCHANGED <<br_exit, br_log>>
    /\ UNCHANGED <<archives, crontab, cron_runs, br_runs, br_ACTION, BACKUP_NAME,
                   br_REPLY, old_backups, br_steps, deleted_count, br_listing, envVars, rbVars,
                   dpVars, waVars, ccVars, svcVars>>

\* restore_backup, lines 196-208: tar -xzf, then docker cp into the container;
\* tar fails when the archive file is missing
BrExtract ==
    /\ br_pc = "extract"
    /\ \E extracted \in BOOLEAN, copied \in BOOLEAN :
         IF ~extracted \/ archives[BACKUP_NAME] = Absent
         THEN /\ UNCHANGED <<hostDir, containerTmp>>
              /\ BrLog({"Failed to extract backup"})
              /\ BrExit(1)
         ELSE /\ hostDir' = [hostDir EXCEPT
                                ![BACKUP_NAME] = <<archives[BACKUP_NAME][1].data>>]
              /\ IF copied
                 THEN /\ containerTmp' = [containerTmp EXCEPT
                             ![BACKUP_NAME] = <<archives[BACKUP_NAME][1].data>>]
                      /\ br_pc' = "drop"
                      /\ UNCHANGED <<br_exit, br_log>>
                 ELSE /\ UNCHANGED containerTmp
                      /\ BrLog({"Failed to copy backup to container"})
                      /\ BrExit(1)
    /\ UNCHANGED <<db, archives, crontab, cron_runs, br_runs, br_ACTION, BACKUP_NAME,
                   br_REPLY, old_backups, br_steps, deleted_count, br_listing, envVars, rbVars, dpVars,
                   waVars, ccVars, svcVars>>

\* restore_backup, lines 210-214: db.dropDatabase(), whose failure is only a warning
BrDrop ==
    /\ br_pc = "drop"
    /\ br_steps' = br_steps \cup {"drop"}
    /\ \E ok \in BOOLEAN :
         IF ok
         THEN db' = {} /\ UNCHANGED br_log
         ELSE db' = db /\ BrLog({"Failed to drop existing database"})
    /\ br_pc' = "load"
    /\ UNCHANGED <<archives, hostDir, containerTmp, crontab, cron_runs, br_runs, br_ACTION,
                   BACKUP_NAME, br_REPLY, old_backups, br_exit, deleted_count, br_listing,
                   envVars, rbVars, dpVars, waVars, ccVars, svcVars>>

\* restore_backup, lines 216-234: mongorestore, then the two clean-ups, whose
\* failures are only warnings
BrLoad ==
    /\ br_pc = "load"
    /\ br_steps' = br_steps \cup {"load"}
    /\ \E ok \in BOOLEAN, cleanedHost \in BOOLEAN, cleanedContainer \in BOOLEAN :
         IF ok
         THEN /\ db' = MongoRestore(db, containerTmp[BACKUP_NAME][1])
              /\ hostDir' = IF cleanedHost THEN [hostDir EXCEPT ![BACKUP_NAME] = Absent]
                            ELSE hostDir
              /\ containerTmp' = IF cleanedContainer
                                 THEN [containerTmp EXCEPT ![BACKUP_NAME] = Absent]
                                 ELSE containerTmp
              /\ BrLog({"Database restored successfully!", OperationCompleted})
              /\ BrCompleted
         ELSE /\ UNCHANGED <<db, hostDir, containerTmp>>
              /\ BrLog({"Failed to restore database"})
              /\ BrExit(1)
    /\ UNCHANGED <<archives, crontab, cron_runs, br_runs, br_ACTION, BACKUP_NAME, br_REPLY,
                   old_backups, deleted_count, br_listing, envVars, rbVars, dpVars, waVars, ccVars, svcVars>>

\* the order in which the shell expands $backup_dir/*.tar.gz and ls prints its
\* arguments: by file name
NameOrder == <<"b1", "b2">>

\* list_backups, lines 263-270: one row per line of ls -la $backup_dir/*.tar.gz
list_backups(arch) == SelectSeq(NameOrder, LAMBDA n : arch[n] # Absent)

\* list_backups, lines 238-275: prints the archives of the backup directory
BrList ==
    /\ br_pc = "list"
    /\ br_listing' = list_backups(archives)
    /\ BrLog({OperationCompleted})
    /\ BrCompleted
    /\ UNCHANGED <<storeVars, br_runs, br_ACTION, BACKUP_NAME, br_REPLY, old_backups,
                   br_steps, deleted_count, envVars, rbVars, dpVars, waVars, ccVars, svcVars>>

\* cleanup_backups, lines 285-309: find the old archives, list them and prompt
BrCleanupFind ==
    /\ br_pc = "find"
    /\ old_backups' = FindOld(archives)
    /\ IF FindOld(archives) = {}
       THEN /\ BrLog({"No old backups found to clean up", OperationCompleted})
            /\ BrCompleted
            /\ UNCHANGED br_REPLY
       ELSE \E reply \in CleanupReplies :
              /\ br_REPLY' = reply
              /\ IF reply = "EOF" THEN BrExit(1) /\ UNCHANGED br_log
                 ELSE IF ~CleanupConfirmed(reply)
                      THEN BrLog({"Cleanup cancelled", OperationCompleted}) /\ BrCompleted
                 ELSE br_pc' = "delete" /\ UNCHANGED <<br_exit, br_log>>
    /\ UNCHANGED <<storeVars, br_runs, br_ACTION, BACKUP_NAME, br_steps, deleted_count, br_listing,
                   envVars, rbVars, dpVars, waVars, ccVars, svcVars>>

\* cleanup_backups, lines 311-317: find ... -delete -print | wc -l
BrCleanupDelete ==
    /\ br_pc = "delete"
    /\ br_steps' = br_steps \cup {"delete"}
    /\ archives' = [ n \in BackupNames |->
                       IF n \in FindOld(archives) THEN Absent ELSE archives[n] ]
    /\ deleted_count' = Cardinality(FindOld(archives))
    /\ UNCHANGED br_listing
    /\ BrLog({"Deleted old backup(s)", OperationCompleted})
    /\ BrCompleted
    /\ UNCHANGED <<db, hostDir, containerTmp, crontab, cron_runs, br_runs, br_ACTION,
                   BACKUP_NAME, br_REPLY, old_backups, envVars, rbVars, dpVars, waVars, ccVars, svcVars>>

\* setup_backup_schedule, lines 321-364: writes /opt/todo-api/backup-db.sh and adds
\* the daily cron entry; under set -e a failing ssh ends the script
BrSchedule ==
    /\ br_pc = "schedule"
    /\ \E ok \in BOOLEAN :
         IF ok
         THEN /\ crontab' = InstallSchedule(crontab)
              /\ BrLog({"Automated backup schedule configured!", OperationCompleted})
              /\ BrCompleted
         ELSE /\ UNCHANGED <<crontab, br_log>>
              /\ BrExit(1)
    /\ UNCHANGED <<db, archives, hostDir, containerTmp, cron_runs, br_runs, br_ACTION,
                   BACKUP_NAME, br_REPLY, old_backups, br_steps, deleted_count, br_listing, envVars,
                   rbVars, dpVars, waVars, ccVars, svcVars>>

\* the generated backup-db.sh, lines 331-348, run by cron: a backup under a fresh
\* name backup_<timestamp>, then find -name "backup_*.tar.gz" -mtime
\* +$RETENTION_DAYS -delete, which runs whether or not the backup succeeded (the
\* generated script has no set -e) and asks nobody.  The job runs at 2 AM, taken
\* here to fall between two invocations of the tool.
CronBackup ==
    /\ cronJob
    /\ br_pc \in {"idle", "exit"}
    /\ cron_runs < MaxCronRuns
    /\ cron_runs' = cron_runs + 1
    /\ \E ok \in BOOLEAN :
         IF ok
         THEN \E fresh \in { n \in BackupNames : archives[n] = Absent } :
                archives' = [ n \in BackupNames |->
                                IF n = fresh THEN Archive(db, FALSE)
                                ELSE IF n \in FindOld(archives) THEN Absent
                                ELSE archives[n] ]
         ELSE archives' = [ n \in BackupNames |->
                              IF n \in FindOld(archives) THEN Absent ELSE archives[n] ]
    /\ UNCHANGED <<db, hostDir, containerTmp, crontab, brVars, envVars, rbVars, dpVars,
                   waVars, ccVars, svcVars>>

\* a target without backup schedule, whose backup directory is empty or holds one
\* backup, b1, of the store as it is
StoreInit ==
    /\ db \in SUBSET Records
    /\ archives \in { [ n \in BackupNames |-> Absent ],
                      [ n \in BackupNames |-> IF n = "b1" THEN Archive(db, FALSE) ELSE Absent ] }
    /\ hostDir = [ n \in BackupNames |-> Absent ]
    /\ containerTmp = [ n \in BackupNames |-> Absent ]
    /\ crontab = << UnrelatedLine >>
    /\ cron_runs = 0

BrInit ==
    /\ br_pc = "idle"
    /\ br_runs = 0
    /\ br_ACTION = ""
    /\ BACKUP_NAME = "b1"
    /\ br_REPLY = ""
    /\ old_backups = {}
    /\ br_steps = {}
    /\ br_log = {}
    /\ deleted_count = 0
    /\ br_listing = << >>
    /\ br_exit = 0

StoreIdle ==
    /\ db = {}
    /\ archives = [ n \in BackupNames |-> Absent ]
    /\ hostDir = [ n \in BackupNames |-> Absent ]
    /\ containerTmp = [ n \in BackupNames |-> Absent ]
    /\ crontab = << UnrelatedLine >>
    /\ cron_runs = 0

EnvIdle ==
    /\ registryTags = << >>
    /\ hostImage = ImageLine("v1.0.0")
    /\ hostImage0 = hostImage
    /\ endpoint = "down"
    /\ saw200 = FALSE

BrNext ==
    \/ CreateRecord
    \/ Age
    \/ BrStart
    \/ BrDump
    \/ BrCopyOut
    \/ BrCompress
    \/ BrExists
    \/ BrRestoreConfirm
    \/ BrExtract
    \/ BrDrop
    \/ BrLoad
    \/ BrList
    \/ BrCleanupFind
    \/ BrCleanupDelete
    \/ BrSchedule

\* the tool's invocations, and the scheduled job between them
SchedNext ==
    \/ BrNext
    \/ CronBackup

(***************************************************************************)
(* Two invocations at once: the deployment script and the restore action   *)
(* of backup-restore.sh, started by two operators (or two pipeline runs)   *)
(* against the same target.  Neither script takes a lock, tests for        *)
(* another run, or waits: each goes through its steps as it does alone.    *)
(***************************************************************************)
Procs == {"p1", "p2"}

\* the backup both restores name
SharedBackup == "b2"

\* positions at which an invocation has run a remote step that changes the target
\* and has further remote steps to run
MidWay == {"drop", "load", "health"}

CcGoto(p, pc) == cc_pc' = [cc_pc EXCEPT ![p] = pc]

\* restore_backup, lines 175-194: test -f and the confirmation prompt
CcRestorePrepare(p) ==
    /\ cc_tool[p] = "restore" /\ cc_pc[p] = "start"
    /\ \E reply \in RestoreReplies :
         IF BackupFileExists(archives, SharedBackup) /\ RestoreConfirmed(reply)
         THEN CcGoto(p, "extract")
         ELSE CcGoto(p, "done")
    /\ UNCHANGED <<cc_tool, cc_image, envVars, storeVars, rbVars, dpVars, waVars, brVars, svcVars>>

\* restore_backup, lines 196-208: tar -xzf, then docker cp into the container
CcRestoreExtract(p) ==
    /\ cc_tool[p] = "restore" /\ cc_pc[p] = "extract"
    /\ \E extracted \in BOOLEAN, copied \in BOOLEAN :
         IF ~extracted
         THEN /\ UNCHANGED <<hostDir, containerTmp>>
              /\ CcGoto(p, "done")
         ELSE /\ hostDir' = [hostDir EXCEPT
                                ![SharedBackup] = <<archives[SharedBackup][1].data>>]
              /\ IF copied
                 THEN /\ containerTmp' = [containerTmp EXCEPT
                             ![SharedBackup] = <<archives[SharedBackup][1].data>>]
                      /\ CcGoto(p, "drop")
                 ELSE /\ UNCHANGED containerTmp
                      /\ CcGoto(p, "done")
    /\ UNCHANGED <<db, archives, crontab, cron_runs, cc_tool, cc_image, envVars, rbVars,
                   dpVars, waVars, brVars, svcVars>>

\* restore_backup, lines 210-214: db.dropDatabase(), whose failure is only a warning
CcRestoreDrop(p) ==
    /\ cc_tool[p] = "restore" /\ cc_pc[p] = "drop"
    /\ \E ok \in BOOLEAN : db' = IF ok THEN {} ELSE db
    /\ CcGoto(p, "load")
    /\ UNCHANGED <<archives, hostDir, containerTmp, crontab, cron_runs, cc_tool, cc_image,
                   envVars, rbVars, dpVars, waVars, brVars, svcVars>>

\* restore_backup, lines 216-234: mongorestore /tmp/<name>/<db>, which fails when
\* the other invocation has removed that directory, then the two clean-ups
CcRestoreLoad(p) ==
    /\ cc_tool[p] = "restore" /\ cc_pc[p] = "load"
    /\ \E ok \in BOOLEAN :
         IF ok /\ containerTmp[SharedBackup] # Absent
         THEN /\ db' = MongoRestore(db, containerTmp[SharedBackup][1])
              /\ hostDir' = [hostDir EXCEPT ![SharedBackup] = Absent]
              /\ containerTmp' = [containerTmp EXCEPT ![SharedBackup] = Absent]
         ELSE UNCHANGED <<db, hostDir, containerTmp>>
    /\ CcGoto(p, "done")
    /\ UNCHANGED <<archives, crontab, cron_runs, cc_tool, cc_image, envVars, rbVars,
                   dpVars, waVars, brVars, svcVars>>

\* the deployment script, lines 103-172: validation, SSH test and syntax check
CcDeployChecks(p) ==
    /\ cc_tool[p] = "deploy" /\ cc_pc[p] = "start"
    /\ \E ok \in BOOLEAN : IF ok THEN CcGoto(p, "playbook") ELSE CcGoto(p, "done")
    /\ UNCHANGED <<cc_tool, cc_image, envVars, storeVars, rbVars, dpVars, waVars, brVars, svcVars>>

\* the deployment script, lines 174-193 and 214-217: ansible-playbook
CcDeployPlaybook(p) ==
    /\ cc_tool[p] = "deploy" /\ cc_pc[p] = "playbook"
    /\ \E ok \in BOOLEAN :
         IF ok
         THEN hostImage' = cc_image[p] /\ CcGoto(p, "health")
         ELSE (\E left \in {hostImage, cc_image[p]} : hostImage' = left)
              /\ CcGoto(p, "done")
    /\ UNCHANGED <<registryTags, hostImage0, endpoint, saw200, cc_tool, cc_image, storeVars,
                   rbVars, dpVars, waVars, brVars, svcVars>>

\* the deployment script, lines 195-212: the health check
CcDeployHealth(p) ==
    /\ cc_tool[p] = "deploy" /\ cc_pc[p] = "health"
    /\ \E e \in EndpointStates : Polled(e)
    /\ CcGoto(p, "done")
    /\ UNCHANGED <<registryTags, hostImage, hostImage0, cc_tool, cc_image, storeVars,
                   rbVars, dpVars, waVars, brVars, svcVars>>

\* no concurrent invocations
CcIdle ==
    /\ cc_pc = [ p \in Procs |-> "idle" ]
    /\ cc_tool = [ p \in Procs |-> "" ]
    /\ cc_image = [ p \in Procs |-> NoImage ]

\* two invocations have been started; the backup directory holds the backup b2
CcInit ==
    /\ cc_pc = [ p \in Procs |-> "start" ]
    /\ cc_tool \in [ Procs -> {"deploy", "restore"} ]
    /\ cc_image \in [ Procs -> { ImageLine(t) : t \in {"v1.1.0", "v1.2.0"} } ]
    /\ \A p \in Procs : cc_tool[p] = "restore" => cc_image[p] = ImageLine("v1.1.0")
    /\ db \in SUBSET Records
    /\ \E d \in SUBSET Records :
         archives = [ n \in BackupNames |-> IF n = SharedBackup THEN Archive(d, FALSE)
                                            ELSE Absent ]
    /\ hostDir = [ n \in BackupNames |-> Absent ]
    /\ containerTmp = [ n \in BackupNames |-> Absent ]
    /\ crontab = << UnrelatedLine >>
    /\ cron_runs = 0

CcNext ==
    \E p \in Procs :
       \/ CcRestorePrepare(p)
       \/ CcRestoreExtract(p)
       \/ CcRestoreDrop(p)
       \/ CcRestoreLoad(p)
       \/ CcDeployChecks(p)
       \/ CcDeployPlaybook(p)
       \/ CcDeployHealth(p)

(***************************************************************************)
(* src/utils/database.js: the DatabaseConnection singleton                 *)
(***************************************************************************)
maxRetries == 5
retryDelay == 5000

\* the MongoDB server stops or starts accepting connections and commands
MongoDown ==
    /\ mongo = "up"
    /\ mongo' = "down"
    /\ UNCHANGED <<cnVars, tdVars, hkVars, envVars, rbVars, dpVars, waVars, storeVars, brVars,
                   ccVars, rtVars>>

MongoUp ==
    /\ mongo = "down"
    /\ mongo' = "up"
    /\ UNCHANGED <<cnVars, tdVars, hkVars, envVars, rbVars, dpVars, waVars, storeVars, brVars,
                   ccVars, rtVars>>

\* mutant of RetryAllowed: the comparison admits one more retry
RetryAllowedInclusive(retries) == retries <= maxRetries

\* line 41: if (this.connectionRetries < this.maxRetries)
RetryAllowed(retries) == retries < maxRetries

\* connect is called from outside: by startServer (server.js:84) on the singleton
\* as constructed, or again by a user of the exported instance
CnConnect ==
    /\ cn_pc \in {"idle", "resolved", "thrown"}
    /\ cn_calls < MaxConnectCalls
    /\ cn_calls' = cn_calls + 1
    /\ cn_pc' = "attempt"
    /\ cn_attempts' = 0
    /\ cn_slept' = 0
    /\ cn_error' = ""
    /\ UNCHANGED <<mongo, connectionRetries, cn_isConnected, cn_health, tdVars, hkVars, envVars,
                   rbVars, dpVars, waVars, storeVars, brVars, ccVars, rtVars>>

\* lines 12-50: one pass through the body of connect, from mongoose.connect to
\* the return, the scheduling of the retry or the throw
CnAttempt ==
    /\ cn_pc = "attempt"
    /\ cn_attempts' = cn_attempts + 1
    /\ IF mongo = "up"
       THEN /\ cn_isConnected' = TRUE
            /\ connectionRetries' = 0
            /\ cn_pc' = "resolved"
            /\ UNCHANGED cn_error
       ELSE /\ connectionRetries' = connectionRetries + 1
            /\ UNCHANGED cn_isConnected
            /\ IF RetryAllowed(connectionRetries + 1)
               THEN cn_pc' = "delay" /\ UNCHANGED cn_error
               ELSE cn_pc' = "thrown" /\ cn_error' = "Database connection failed"
    /\ UNCHANGED <<mongo, cn_calls, cn_slept, cn_health, tdVars, hkVars, envVars, rbVars,
                   dpVars, waVars, storeVars, brVars, ccVars, rtVars>>

\* lines 44-45: the timer of retryDelay milliseconds fires and connect calls itself
CnRetryDelay ==
    /\ cn_pc = "delay"
    /\ cn_slept' = cn_slept + retryDelay
    /\ cn_pc' = "attempt"
    /\ UNCHANGED <<mongo, cn_calls, connectionRetries, cn_isConnected, cn_attempts, cn_error,
                   cn_health, tdVars, hkVars, envVars, rbVars, dpVars, waVars, storeVars,
                   brVars, ccVars, rtVars>>

\* lines 53-64: disconnect, which may fail and then leaves isConnected as it is
CnDisconnect ==
    /\ cn_pc \in {"idle", "resolved", "thrown"}
    /\ cn_isConnected
    /\ \E ok \in BOOLEAN : cn_isConnected' = ~ok
    /\ UNCHANGED <<mongo, cn_pc, cn_calls, connectionRetries, cn_attempts, cn_slept, cn_error,
                   cn_health, tdVars, hkVars, envVars, rbVars, dpVars, waVars, storeVars,
                   brVars, ccVars, rtVars>>

\* lines 77-97: healthCheck, as GET /health calls it
CnHealthCheck ==
    /\ cn_health' = healthCheck(cn_isConnected, mongo = "up")
    /\ UNCHANGED <<mongo, cn_pc, cn_calls, connectionRetries, cn_isConnected, cn_attempts,
                   cn_slept, cn_error, tdVars, hkVars, envVars, rbVars, dpVars, waVars,
                   storeVars, brVars, ccVars, rtVars>>

\* the instance as its constructor leaves it, lines 4-9
CnInit ==
    /\ mongo \in {"up", "down"}
    /\ cn_pc = "idle"
    /\ cn_calls = 0
    /\ connectionRetries = 0
    /\ cn_isConnected = FALSE
    /\ cn_attempts = 0
    /\ cn_slept = 0
    /\ cn_error = ""
    /\ cn_health = ""

CnIdle ==
    /\ mongo = "up"
    /\ cn_pc = "idle"
    /\ cn_calls = 0
    /\ connectionRetries = 0
    /\ cn_isConnected = FALSE
    /\ cn_attempts = 0
    /\ cn_slept = 0
    /\ cn_error = ""
    /\ cn_health = ""

CnNext ==
    \/ CnConnect
    \/ CnAttempt
    \/ CnRetryDelay
    \/ CnDisconnect
    \/ CnHealthCheck
    \/ MongoDown
    \/ MongoUp

(***************************************************************************)
(* src/server.js and src/routes/todos.js: the HTTP interface               *)
(***************************************************************************)
\* ObjectIds, in the order in which new documents receive them
IdNames == <<"o1", "o2", "o3">>
ObjectIds == { IdNames[i] : i \in 1..Len(IdNames) }

\* the ids a request may carry in /todos/:id
RequestIds == ObjectIds \cup {"invalid-id"}

\* id.match(/^[0-9a-fA-F]{24}$/)
IdWellFormed(id) == id \in ObjectIds

\* a field the request body does not carry
Undefined == "undefined"

\* the fields of a request body: a title that is absent, blank or padded, and a
\* completed flag that is absent or set
TitleInputs == {Undefined, " ", " b "}
CompletedInputs == {Undefined, "true"}
Bodies == [title : TitleInputs, completed : CompletedInputs]

\* String.prototype.trim
Trim(t) ==
    CASE t = " "   -> ""
      [] t = " b " -> "b"
      [] OTHER     -> t

\* !title || title.trim() === ''
TitleMissing(title) == title = Undefined \/ title = "" \/ Trim(title) = ""

\* res.status(...).json(...): data is the list of documents of the body's data
\* field, hasData telling whether the body has a non-null data field at all
Res(via, method, path, id, status, success, hasData, data, message) ==
    [via |-> via, method |-> method, path |-> path, id |-> id, status |-> status,
     success |-> success, hasData |-> hasData, data |-> data, message |-> message]

NoResponse == Res("", "", "", "", 0, FALSE, FALSE, << >>, "")

Reverse(q) == [ i \in 1..Len(q) |-> q[Len(q) + 1 - i] ]

\* Todo.find().sort({ createdAt: -1 }), the collection being kept in creation order
FindSorted(coll) == Reverse(coll)

\* mutant of findById: the first document there is, whatever its id
findFirst(coll, id) == IF coll = << >> THEN << >> ELSE << coll[1] >>

\* Todo.findById: the document as a one-element list, the empty list for null
findById(coll, id) == SelectSeq(coll, LAMBDA d : d.id = id)

\* the collection without the document of that id
Without(coll, id) == SelectSeq(coll, LAMBDA d : d.id # id)

\* Todo.findByIdAndUpdate(id, updateData, {new: true}) on one document
Updated(d, updateData) ==
    [d EXCEPT !.title = IF updateData.title = Undefined THEN @ ELSE updateData.title,
              !.completed = IF updateData.completed = Undefined THEN @
                            ELSE updateData.completed = "true"]

\* a response is sent: it is recorded and counted
Respond(r) ==
    /\ td_res' = r
    /\ td_count' = td_count + 1

ServerError(method, path, id, message) ==
    Res("router", method, path, id, 500, FALSE, FALSE, << >>, message)

InvalidId(method, id) ==
    Res("router", method, "/todos/:id", id, 400, FALSE, FALSE, << >>, "Invalid todo ID format")

TodoNotFound(method, id) ==
    Res("router", method, "/todos/:id", id, 404, FALSE, FALSE, << >>, "Todo not found")

\* Todo.create, as the tests call it on the model directly
TodoCreate ==
    /\ mongo = "up"
    /\ td_made < MaxTodos
    /\ todos' = Append(todos, [id |-> IdNames[td_made + 1], title |-> "a",
                                completed |-> FALSE])
    /\ td_made' = td_made + 1
    /\ UNCHANGED <<mongo, td_put, td_res, td_count, cnVars, hkVars, envVars, rbVars, dpVars,
                   waVars, storeVars, brVars, ccVars, rtVars>>

\* server.js: the routes the application registers are GET /health and GET /;
\* the router of routes/todos.js is not mounted, so every other request ends in
\* the 404 handler of lines 67-74
AppRequest ==
    /\ td_count < MaxRequests
    /\ \E method \in {"GET", "POST", "PUT", "DELETE"},
          path \in {"/", "/health", "/todos", "/todos/:id"}, id \in RequestIds \cup {""} :
         /\ (path = "/todos/:id") <=> (id # "")
         /\ Respond(IF method = "GET" /\ path = "/health"
                    THEN Res("app", method, path, id, 200, TRUE, FALSE, << >>, "API is running")
                    ELSE IF method = "GET" /\ path = "/"
                    THEN Res("app", method, path, id, 200, TRUE, FALSE, << >>, "Todo API Server")
                    ELSE Res("app", method, path, id, 404, FALSE, FALSE, << >>, "Route not found"))
    /\ UNCHANGED <<mongo, todos, td_made, td_put, cnVars, hkVars, envVars, rbVars, dpVars,
                   waVars, storeVars, brVars, ccVars, rtVars>>

\* todos.js, router.get('/'), lines 7-24
TdGetAll ==
    /\ td_count < MaxRequests
    /\ Respond(IF mongo = "up"
               THEN Res("router", "GET", "/todos", "", 200, TRUE, TRUE, FindSorted(todos),
                        "Retrieved todos successfully")
               ELSE ServerError("GET", "/todos", "", "Failed to retrieve todos"))
    /\ UNCHANGED <<mongo, todos, td_made, td_put, cnVars, hkVars, envVars, rbVars, dpVars,
                   waVars, storeVars, brVars, ccVars, rtVars>>

\* todos.js, router.post('/'), lines 27-74
TdPost ==
    /\ td_count < MaxRequests
    /\ \E body \in Bodies :
         IF TitleMissing(body.title)
         THEN /\ Respond(Res("router", "POST", "/todos", "", 400, FALSE, FALSE, << >>,
                             "Title is required"))
              /\ UNCHANGED <<todos, td_made>>
         ELSE IF mongo = "up"
         THEN LET savedTodo == [id |-> IdNames[td_made + 1], title |-> Trim(body.title),
                                completed |-> body.completed = "true"]
              IN  /\ td_made < MaxTodos
                  /\ todos' = Append(todos, savedTodo)
                  /\ td_made' = td_made + 1
                  /\ Respond(Res("router", "POST", "/todos", "", 201, TRUE, TRUE,
                                 << savedTodo >>, "Todo created successfully"))
         ELSE /\ Respond(ServerError("POST", "/todos", "", "Failed to create todo"))
              /\ UNCHANGED <<todos, td_made>>
    /\ UNCHANGED <<mongo, td_put, cnVars, hkVars, envVars, rbVars, dpVars, waVars, storeVars,
                   brVars, ccVars, rtVars>>

\* todos.js, router.get('/:id'), lines 77-113
TdGetOne ==
    /\ td_count < MaxRequests
    /\ \E id \in RequestIds :
         Respond(IF ~IdWellFormed(id) THEN InvalidId("GET", id)
                 ELSE IF mongo # "up"
                 THEN ServerError("GET", "/todos/:id", id, "Failed to retrieve todo")
                 ELSE IF findById(todos, id) = << >> THEN TodoNotFound("GET", id)
                 ELSE Res("router", "GET", "/todos/:id", id, 200, TRUE, TRUE,
                          findById(todos, id), "Todo retrieved successfully"))
    /\ UNCHANGED <<mongo, todos, td_made, td_put, cnVars, hkVars, envVars, rbVars, dpVars,
                   waVars, storeVars, brVars, ccVars, rtVars>>

\* todos.js, router.put('/:id'), lines 116-156: the id check, the existence check
\* and the preparation of updateData; the handler then awaits the update
TdPutCheck ==
    /\ td_count < MaxRequests
    /\ td_put = << >>
    /\ \E id \in RequestIds, body \in Bodies :
         IF ~IdWellFormed(id)
         THEN Respond(InvalidId("PUT", id)) /\ UNCHANGED td_put
         ELSE IF mongo # "up"
         THEN /\ Respond(ServerError("PUT", "/todos/:id", id, "Failed to update todo"))
              /\ UNCHANGED td_put
         ELSE IF findById(todos, id) = << >>
         THEN Respond(TodoNotFound("PUT", id)) /\ UNCHANGED td_put
         ELSE IF body.title # Undefined /\ TitleMissing(body.title)
         THEN /\ Respond(Res("router", "PUT", "/todos/:id", id, 400, FALSE, FALSE, << >>,
                             "Title cannot be empty"))
              /\ UNCHANGED td_put
         ELSE /\ td_put' = << [id |-> id,
                               updateData |-> [title |-> Trim(body.title),
                                               completed |-> body.completed]] >>
              /\ UNCHANGED <<td_res, td_count>>
    /\ UNCHANGED <<mongo, todos, td_made, cnVars, hkVars, envVars, rbVars, dpVars, waVars,
                   storeVars, brVars, ccVars, rtVars>>

\* todos.js, router.put('/:id'), lines 158-196: findByIdAndUpdate and the response,
\* whose data is null when no document has the id any more
TdPutUpdate ==
    /\ td_put # << >>
    /\ td_put' = << >>
    /\ LET id == td_put[1].id
           found == findById(todos, id)
       IN  IF mongo # "up"
           THEN /\ Respond(ServerError("PUT", "/todos/:id", id, "Failed to update todo"))
                /\ UNCHANGED todos
           ELSE /\ todos' = [ i \in 1..Len(todos) |->
                                IF todos[i].id = id
                                THEN Updated(todos[i], td_put[1].updateData)
                                ELSE todos[i] ]
                /\ Respond(Res("router", "PUT", "/todos/:id", id, 200, TRUE, found # << >>,
                               IF found = << >> THEN << >>
                               ELSE << Updated(found[1], td_put[1].updateData) >>,
                               "Todo updated successfully"))
    /\ UNCHANGED <<mongo, td_made, cnVars, hkVars, envVars, rbVars, dpVars, waVars,
                   storeVars, brVars, ccVars, rtVars>>

\* todos.js, router.delete('/:id'), lines 199-236
TdDelete ==
    /\ td_count < MaxRequests
    /\ \E id \in RequestIds :
         IF ~IdWellFormed(id)
         THEN Respond(InvalidId("DELETE", id)) /\ UNCHANGED todos
         ELSE IF mongo # "up"
         THEN /\ Respond(ServerError("DELETE", "/todos/:id", id, "Failed to delete todo"))
              /\ UNCHANGED todos
         ELSE IF findById(todos, id) = << >>
         THEN Respond(TodoNotFound("DELETE", id)) /\ UNCHANGED todos
         ELSE /\ todos' = Without(todos, id)
              /\ Respond(Res("router", "DELETE", "/todos/:id", id, 200, TRUE, TRUE,
                             findById(todos, id), "Todo deleted successfully"))
    /\ UNCHANGED <<mongo, td_made, td_put, cnVars, hkVars, envVars, rbVars, dpVars, waVars,
                   storeVars, brVars, ccVars, rtVars>>

\* an empty collection and no request yet, as after the tests' beforeEach
TdInit ==
    /\ todos = << >>
    /\ td_made = 0
    /\ td_put = << >>
    /\ td_res = NoResponse
    /\ td_count = 0

TdNext ==
    \/ TodoCreate
    \/ AppRequest
    \/ TdGetAll
    \/ TdPost
    \/ TdGetOne
    \/ TdPutCheck
    \/ TdPutUpdate
    \/ TdDelete
    \/ MongoDown
    \/ MongoUp

(***************************************************************************)
(* the health check script (health-check.sh)                               *)
(***************************************************************************)
AppStates == {"app_db_ok", "app_db_disconnected", "app_db_ping_fails"}

\* the deployments the script may be pointed at: what answers on the port, whether
\* the /todos endpoints are served, how fast /health answers, and whether the
\* machine running the script has curl
Targets ==
    [health : EndpointStates \cup {"other_connected"}, todos : BOOLEAN, speed : {"fast", "slow", "too_slow"},
     curl : BOOLEAN]

\* the response to GET /health: the application's, or that of a server whose body
\* carries the database.status "connected" the script looks for
HkResponse(e) ==
    IF e = "other_connected"
    THEN [code |-> 200, status |-> "absent", dbStatus |-> "connected"]
    ELSE Response(e)

\* status code of GET / : the application's basic route answers 200
RootCode(e) == IF e \in AppStates THEN 200 ELSE HkResponse(e).code

\* http_request, lines 107-135: the status code is compared with the expected one
http_request(code, expected_status) == code = expected_status

\* jq -r '.database.status' of the body, "null" when the body has no such field
JqDatabaseStatus(r) == IF r.dbStatus = "absent" THEN "null" ELSE r.dbStatus

Check(name, status) == [name |-> name, status |-> status]
PassOrFail(name, ok) == Check(name, IF ok THEN "PASS" ELSE "FAIL")

\* the exit status of the arithmetic command ((FAILED_CHECKS++)): 1 when the value
\* of the expression, the count before the increment, is 0
ArithStatus(value) == IF value = 0 THEN 1 ELSE 0

\* add_check_result, lines 138-151, under set -e: the result is appended; for a
\* FAIL the counter is incremented, and a non-zero status of that command ends
\* the script
add_check_result(st, r) ==
    [checks |-> Append(st.checks, r),
     failed |-> IF r.status = "FAIL" THEN st.failed + 1 ELSE st.failed,
     exited |-> r.status = "FAIL" /\ ArithStatus(st.failed) # 0]

\* the calls of add_check_result a check function makes, in order
RECURSIVE add_all(_, _)
add_all(st, rs) ==
    IF rs = << >> \/ st.exited THEN st
    ELSE add_all(add_check_result(st, Head(rs)), Tail(rs))

\* check_api_endpoints, lines 176-224: the results it records
ApiResults(served) ==
    IF served
    THEN << Check("GET /todos", "PASS"), Check("POST /todos", "PASS"),
            Check("GET /todos/:id", "PASS"), Check("PUT /todos/:id", "PASS"),
            Check("DELETE /todos/:id", "PASS") >>
    ELSE << Check("GET /todos", "FAIL") >>

\* check_response_times, lines 242-264
TimeResult(t) ==
    IF ~http_request(HkResponse(t.health).code, 200) THEN Check("Response Time", "FAIL")
    ELSE Check("Response Time", CASE t.speed = "fast" -> "PASS"
                                  [] t.speed = "slow" -> "WARN"
                                  [] OTHER -> "FAIL")

\* one check function of main: its results are recorded, and the script goes on
\* to the next function unless recording ended it
HkRun(from, to, results) ==
    /\ hk_pc = from
    /\ LET st == add_all([checks |-> HEALTH_CHECKS, failed |-> FAILED_CHECKS,
                          exited |-> FALSE], results)
       IN  /\ HEALTH_CHECKS' = st.checks
           /\ FAILED_CHECKS' = st.failed
           /\ IF st.exited
              THEN hk_pc' = "exit" /\ hk_exit' = 1
              ELSE hk_pc' = to /\ UNCHANGED hk_exit
    /\ UNCHANGED <<hk_target, hk_log, mongo, cnVars, tdVars, envVars, rbVars, dpVars, waVars,
                   storeVars, brVars, ccVars, rtVars>>

\* main, lines 308-322: the script needs curl
HkStart ==
    /\ hk_pc = "start"
    /\ IF hk_target.curl
       THEN hk_pc' = "basic" /\ UNCHANGED <<hk_log, hk_exit>>
       ELSE /\ hk_pc' = "exit"
            /\ hk_exit' = 1
            /\ hk_log' = hk_log \cup {"curl command not found"}
    /\ UNCHANGED <<hk_target, HEALTH_CHECKS, FAILED_CHECKS, mongo, cnVars, tdVars, envVars,
                   rbVars, dpVars, waVars, storeVars, brVars, ccVars, rtVars>>

\* check_basic_connectivity, lines 154-162
HkBasic ==
    HkRun("basic", "health",
          << PassOrFail("Basic Connectivity", http_request(RootCode(hk_target.health), 200)) >>)

\* check_health_endpoint, lines 164-172
HkHealth ==
    HkRun("health", "database",
          << PassOrFail("Health Endpoint",
                        http_request(HkResponse(hk_target.health).code, 200)) >>)

\* check_database_connectivity, lines 226-240
HkDatabase ==
    HkRun("database", "times",
          << PassOrFail("Database Connectivity",
                        JqDatabaseStatus(HkResponse(hk_target.health)) = "connected") >>)

HkTimes == HkRun("times", "api", << TimeResult(hk_target) >>)

HkApi == HkRun("api", "display", ApiResults(hk_target.todos))

\* display_results, lines 267-305, and the end of main under set -e
HkDisplay ==
    /\ hk_pc = "display"
    /\ hk_pc' = "exit"
    /\ IF FAILED_CHECKS = 0
       THEN /\ hk_log' = hk_log \cup {"=== HEALTH CHECK RESULTS ===",
                                      "All health checks passed!"}
            /\ hk_exit' = 0
       ELSE /\ hk_log' = hk_log \cup {"=== HEALTH CHECK RESULTS ===",
                                      "health check(s) failed!"}
            /\ hk_exit' = 1
    /\ UNCHANGED <<hk_target, HEALTH_CHECKS, FAILED_CHECKS, mongo, cnVars, tdVars, envVars,
                   rbVars, dpVars, waVars, storeVars, brVars, ccVars, rtVars>>

HkInit ==
    /\ hk_pc = "start"
    /\ hk_target \in Targets
    /\ HEALTH_CHECKS = << >>
    /\ FAILED_CHECKS = 0
    /\ hk_log = {}
    /\ hk_exit = 0

HkIdle ==
    /\ hk_pc = "idle"
    /\ hk_target = [health |-> "down", todos |-> FALSE, speed |-> "fast", curl |-> TRUE]
    /\ HEALTH_CHECKS = << >>
    /\ FAILED_CHECKS = 0
    /\ hk_log = {}
    /\ hk_exit = 0

HkNext ==
    \/ HkStart
    \/ HkBasic
    \/ HkHealth
    \/ HkDatabase
    \/ HkTimes
    \/ HkApi
    \/ HkDisplay

(***************************************************************************)
(* The retry helpers of the integration tests: testUtils.retry             *)
(* (tests/integration/setup.js) and retryOperation                         *)
(* (tests/integration/deployment-integration.test.js)                      *)
(***************************************************************************)
MaxRetryAttempts == 4
MaxRetryCalls == 2

Helpers == {"retry", "retryOperation"}

\* setup.js line 131: baseDelay = 1000
baseDelay == 1000
\* deployment-integration.test.js line 15: TEST_CONFIG.retryDelay
TEST_CONFIG_retryDelay == 30000

RECURSIVE Pow2(_)
Pow2(n) == IF n = 0 THEN 1 ELSE 2 * Pow2(n - 1)

\* the wait after a failed attempt: retry backs off exponentially (setup.js line
\* 144), retryOperation waits a fixed time (deployment-integration.test.js line 734)
Delay(helper, a) ==
    IF helper = "retry" THEN baseDelay * Pow2(a - 1) ELSE TEST_CONFIG_retryDelay

\* mutant of AttemptIsLast: the failure of the last attempt is handled as any other
AttemptIsNeverLast(a, max) == FALSE

\* attempt === maxAttempts
AttemptIsLast(a, max) == a = max

\* the loop head: attempt <= maxAttempts
RtLoop(a, max) == IF a <= max THEN "invoke" ELSE "after"

\* a test calls one of the helpers
RtCall ==
    /\ rt_pc \in {"idle", "returned", "thrown"}
    /\ rt_runs < MaxRetryCalls
    /\ rt_runs' = rt_runs + 1
    /\ \E h \in Helpers, max \in 0..MaxRetryAttempts :
         /\ rt_helper' = h
         /\ rt_maxAttempts' = max
         /\ rt_pc' = RtLoop(1, max)
    /\ rt_attempt' = 1
    /\ rt_outcomes' = << >>
    /\ rt_delays' = << >>
    /\ UNCHANGED <<mongo, cnVars, tdVars, hkVars, envVars, rbVars, dpVars, waVars, storeVars,
                   brVars, ccVars>>

\* the try block and its catch: the operation is awaited; a failure of the last
\* attempt is thrown at once, any other failure is followed by a wait
RtInvoke ==
    /\ rt_pc = "invoke"
    /\ \E ok \in BOOLEAN :
         /\ rt_outcomes' = Append(rt_outcomes, ok)
         /\ rt_pc' = IF ok THEN "returned"
                     ELSE IF AttemptIsLast(rt_attempt, rt_maxAttempts) THEN "thrown"
                     ELSE "wait"
    /\ UNCHANGED <<rt_helper, rt_maxAttempts, rt_attempt, rt_delays, rt_runs, mongo, cnVars, tdVars,
                   hkVars, envVars, rbVars, dpVars, waVars, storeVars, brVars, ccVars>>

\* the setTimeout promise, then attempt++ and the loop test
RtWait ==
    /\ rt_pc = "wait"
    /\ rt_delays' = Append(rt_delays, Delay(rt_helper, rt_attempt))
    /\ rt_attempt' = rt_attempt + 1
    /\ rt_pc' = RtLoop(rt_attempt + 1, rt_maxAttempts)
    /\ UNCHANGED <<rt_helper, rt_maxAttempts, rt_outcomes, rt_runs, mongo, cnVars, tdVars,
                   hkVars, envVars, rbVars, dpVars, waVars, storeVars, brVars, ccVars>>

\* after the loop: retry throws lastError (setup.js line 150), retryOperation
\* falls off its end and returns
RtAfterLoop ==
    /\ rt_pc = "after"
    /\ rt_pc' = IF rt_helper = "retry" THEN "thrown" ELSE "returned"
    /\ UNCHANGED <<rt_helper, rt_maxAttempts, rt_attempt, rt_outcomes, rt_delays, rt_runs, mongo,
                   cnVars, tdVars, hkVars, envVars, rbVars, dpVars, waVars, storeVars, brVars,
                   ccVars>>

RtInit ==
    /\ rt_pc = "idle"
    /\ rt_helper = "retry"
    /\ rt_maxAttempts = 0
    /\ rt_attempt = 1
    /\ rt_outcomes = << >>
    /\ rt_delays = << >>
    /\ rt_runs = 0

RtNext ==
    \/ RtCall
    \/ RtInvoke
    \/ RtWait
    \/ RtAfterLoop

\* the application and the health check script at rest
SvcIdle == CnIdle /\ TdInit /\ HkIdle /\ RtInit

(***************************************************************************)
(* Specifications                                                          *)
(***************************************************************************)
InitRollback == EnvInit /\ RbInit /\ DpIdle /\ WaIdle /\ StoreIdle /\ BrInit /\ CcIdle /\ SvcIdle
SpecRollback == InitRollback /\ [][RbNext]_vars

InitDeploy == EnvInit /\ DpInit /\ RbIdle /\ WaIdle /\ StoreIdle /\ BrInit /\ CcIdle /\ SvcIdle
SpecDeploy == InitDeploy /\ [][DpNext]_vars

InitWait == EnvPolled /\ WaInit /\ RbIdle /\ DpIdle /\ StoreIdle /\ BrInit /\ CcIdle /\ SvcIdle
WaNext == WaPoll
SpecWait == InitWait /\ [][WaNext]_vars

InitBackup == EnvIdle /\ StoreInit /\ BrInit /\ RbIdle /\ DpIdle /\ WaIdle /\ CcIdle /\ SvcIdle
SpecBackup == InitBackup /\ [][BrNext]_vars

InitConcurrent == EnvIdle /\ CcInit /\ BrInit /\ RbIdle /\ DpIdle /\ WaIdle /\ SvcIdle
SpecConcurrent == InitConcurrent /\ [][CcNext]_vars

InitSchedule == EnvIdle /\ StoreInit /\ BrInit /\ RbIdle /\ DpIdle /\ WaIdle /\ CcIdle /\ SvcIdle
SpecSchedule == InitSchedule /\ [][SchedNext]_vars

InitConnect ==
    /\ CnInit /\ TdInit /\ HkIdle
    /\ EnvIdle /\ StoreIdle /\ BrInit /\ RbIdle /\ DpIdle /\ WaIdle /\ CcIdle /\ RtInit
SpecConnect == InitConnect /\ [][CnNext]_vars

InitTodos ==
    /\ CnIdle /\ TdInit /\ HkIdle
    /\ EnvIdle /\ StoreIdle /\ BrInit /\ RbIdle /\ DpIdle /\ WaIdle /\ CcIdle /\ RtInit
SpecTodos == InitTodos /\ [][TdNext]_vars

InitHealth ==
    /\ CnIdle /\ TdInit /\ HkInit
    /\ EnvIdle /\ StoreIdle /\ BrInit /\ RbIdle /\ DpIdle /\ WaIdle /\ CcIdle /\ RtInit
SpecHealth == InitHealth /\ [][HkNext]_vars

InitRetry ==
    /\ CnIdle /\ TdInit /\ HkIdle /\ RtInit
    /\ EnvIdle /\ StoreIdle /\ BrInit /\ RbIdle /\ DpIdle /\ WaIdle /\ CcIdle
SpecRetry == InitRetry /\ [][RtNext]_vars

(***************************************************************************)
(* Properties                                                              *)
(***************************************************************************)
\* the tag of the image the target ran when the tool was invoked
DeployedTag == IF hostImage0 = NoImage THEN "" ELSE hostImage0[3]

\* the registry's tags, newest first, without the given tag and without "latest"
Remaining(tags, tag) == SelectSeq(tags, LAMBDA n : n # tag /\ n # LatestTag)

\* rollback.sh was invoked without --tag and has passed tag selection
AutoSelected == rb_tagArg = << >> /\ rb_pc = "confirm"

\* C1: automatic rollback selection never chooses the currently deployed tag nor
\* "latest" when the registry holds another immutable tag: no line of the value
\* selected into $ROLLBACK_TAG is the deployed tag or "latest".
C1_NeverCurrentNorLatest ==
    (AutoSelected /\ hostImage0 # NoImage /\ Remaining(registryTags, DeployedTag) # << >>)
        => \A i \in 1..Len(ROLLBACK_TAG) :
              ROLLBACK_TAG[i] \notin { <<DeployedTag>>, <<LatestTag>> }

\* C2: a 200 response whose body reports a disconnected or unhealthy data store is
\* never accepted as healthy: the deployment script does not end successfully on it.
C2_UnhealthyStoreNotAccepted ==
    (dp_pc = "exit" /\ dp_exit = 0 /\ dp_polls > 0)
        => ~( Response(endpoint).code = 200
              /\ Response(endpoint).dbStatus \in {"disconnected", "unhealthy"} )

\* C3: the drop and load steps of restore are issued only after the reply "yes",
\* and the delete step of cleanup only after the reply y or Y.
C3_DestructiveOnlyWhenConfirmed ==
    /\ (br_steps \cap {"drop", "load"} # {}) => br_REPLY = "yes"
    /\ ("delete" \in br_steps) => br_REPLY \in {"y", "Y"}

\* C3 witness: a restore of an existing archive answered "y" has ended without
\* issuing any destructive step
C3_Witness ==
    /\ br_ACTION = "restore" /\ br_pc = "exit" /\ br_REPLY = "y"
    /\ archives[BACKUP_NAME] # Absent /\ br_steps = {}

\* C4: a verification with maxAttempts = N that never receives HTTP 200 makes
\* exactly N polls and ends by throwing; it never returns normally.
C4_TimeoutAfterNPolls ==
    (wa_pc \in {"returned", "thrown"} /\ ~saw200)
        => (wa_polls = wa_maxAttempts /\ wa_pc = "thrown")

\* C5: the rollback playbook runs only after the confirmation was given; without
\* it no deployment command is run and the target keeps the image it had.
C5_RollbackOnlyWhenConfirmed ==
    (rb_REPLY \notin {"y", "Y"}) => (rb_playbooks = 0 /\ hostImage = hostImage0)

\* C5 witness: the prompt was answered "n" and the script has ended
C5_Witness ==
    rb_pc = "exit" /\ rb_prompted /\ rb_REPLY = "n" /\ hostImage0 # NoImage

\* C6: whenever the deployment of the application ends successfully, GET /health
\* answers with status "healthy" and database.status "connected".
C6_SucceededImpliesHealthBody ==
    (dp_pc = "exit" /\ dp_exit = 0
        /\ endpoint \in {"app_db_ok", "app_db_disconnected", "app_db_ping_fails"})
        => ( Response(endpoint).status = "healthy"
             /\ Response(endpoint).dbStatus = "connected" )

\* C7: when the health verification of a deployment fails and a prior tag is
\* available in the registry, a second deploy cycle has been run, exactly once,
\* by the time the invocation ends.
C7_OneRollbackCycle ==
    (dp_pc = "exit" /\ dp_polls > 0 /\ dp_exit # 0
        /\ Remaining(registryTags, DOCKER_IMAGE_TAG[3]) # << >>)
        => dp_playbooks = 2

\* C8: a confirmed restore of a backup leaves
\* the data store with as many records as the backup holds, that is, as many as the
\* store held when the backup was taken.
C8_RoundTripCount ==
    (br_ACTION = "restore" /\ br_pc = "exit" /\ br_exit = 0 /\ br_REPLY = "yes")
        => Cardinality(db) = Cardinality(archives[BACKUP_NAME][1].data)

\* C9: the rollback candidate is the first entry that remains after removing the
\* current tag and "latest" from the registry's tag list, newest first.
C9_CandidateIsFirstRemaining ==
    (AutoSelected /\ hostImage0 # NoImage /\ Remaining(registryTags, DeployedTag) # << >>)
        => ROLLBACK_TAG = Word(Remaining(registryTags, DeployedTag)[1])

\* C10: when no tag remains after excluding the current tag and "latest", the
\* tool never shows the confirmation prompt, never runs a rollback deployment and
\* ends with a failure status.
C10_NoCandidateFails ==
    (rb_tagArg = << >> /\ rb_pc \notin {"start", "determine"}
        /\ Remaining(registryTags, DeployedTag) = << >>)
        => (~rb_prompted /\ rb_playbooks = 0 /\ rb_pc = "exit" /\ rb_exit = 1)

\* C11: a restore of a backup name whose archive does not exist logs the not-found
\* error and fails, without having issued a remote step of the restore, and the
\* step that finds the archive missing leaves the data store, the archives and
\* the working copies as they were.
C11_MissingBackupNotFound ==
    /\ []( ("Backup file not found" \in br_log)
            => (br_pc = "exit" /\ br_exit = 1 /\ br_steps = {}) )
    /\ [][ (br_ACTION = "restore" /\ br_pc = "exists" /\ br_pc' # "exists"
              /\ archives[BACKUP_NAME] = Absent)
           => ( "Backup file not found" \in br_log' /\ br_pc' = "exit"
                /\ db' = db /\ archives' = archives
                /\ hostDir' = hostDir /\ containerTmp' = containerTmp ) ]_vars

\* C11 witness: a restore of a missing archive has ended, the store holding records
C11_Witness ==
    /\ br_ACTION = "restore" /\ br_pc = "exit" /\ archives[BACKUP_NAME] = Absent
    /\ "Backup file not found" \in br_log /\ db # {}

\* C12: a step of backup that fails leaves no archive of the backup's name that
\* it wrote itself: the archive of that name is what it was before the step.
C12_FailedBackupLeavesNoArchive ==
    [][ (br_ACTION = "backup" /\ br_pc # "exit" /\ br_pc' = "exit" /\ br_exit' # 0)
        => archives'[BACKUP_NAME] = archives[BACKUP_NAME] ]_vars

\* C17: an archive disappears only in the delete step of an explicit cleanup
\* invocation.
C17_DeletedOnlyByCleanup ==
    [][ (\E n \in BackupNames : archives[n] # Absent /\ archives'[n] = Absent)
        => (br_ACTION = "cleanup" /\ br_pc = "delete") ]_vars

\* C18: the contents of an existing archive never change: as long as the archive
\* of a name exists, it holds the same dump, completely written.
C18_ArchiveImmutable ==
    [][ \A n \in BackupNames :
          (archives[n] # Absent /\ archives'[n] # Absent)
          => ( archives'[n][1].data = archives[n][1].data
               /\ archives'[n][1].complete = archives[n][1].complete ) ]_vars

\* C19: the delete step of cleanup removes only archives older than the retention
\* threshold, leaves every newer archive as it is, and reports as its count the
\* number of archives it removed.
C19_CleanupDeletesOnlyOld ==
    [][ (br_pc = "delete" /\ br_pc' = "exit")
        => LET gone == { n \in BackupNames : archives[n] # Absent /\ archives'[n] = Absent }
           IN  /\ \A n \in gone : archives[n][1].old
               /\ \A n \in BackupNames :
                    (archives[n] # Absent /\ ~archives[n][1].old)
                    => archives'[n] = archives[n]
               /\ deleted_count' = Cardinality(gone) ]_vars

\* C19 witness: a cleanup has deleted one archive and a newer archive is still there
C19_Witness ==
    /\ br_ACTION = "cleanup" /\ br_pc = "exit" /\ "delete" \in br_steps
    /\ deleted_count = 1
    /\ \E n \in BackupNames : archives[n] # Absent /\ ~archives[n][1].old

\* C20: a restore whose confirmation was not the accept value is not reported as
\* completed: it prints no success message and does not end with status 0.
C20_DeclinedIsNotSuccess ==
    (br_ACTION = "restore" /\ br_pc = "exit" /\ "Restore cancelled" \in br_log)
        => (br_exit # 0 /\ OperationCompleted \notin br_log)

\* the messages the deployment script has printed
DpPrinted == { dp_log[i] : i \in 1..Len(dp_log) }

\* C14: when the target is unreachable the deployment ends with the connectivity
\* error and status 1 without having run the playbook or a health check, the
\* target running the image it ran before; and nothing is run on the target
\* before the connectivity test has passed.
C14_UnreachableFailsBeforeChange ==
    /\ ("Cannot connect via SSH" \in DpPrinted)
         => ( dp_pc = "exit" /\ dp_exit = 1 /\ dp_playbooks = 0 /\ dp_polls = 0
              /\ hostImage = hostImage0 )
    /\ (dp_pc \in {"start", "ssh"})
         => (dp_playbooks = 0 /\ dp_polls = 0 /\ hostImage = hostImage0)

\* C14 witness: the connectivity test of a deployment has failed
C14_Witness ==
    dp_pc = "exit" /\ "Cannot connect via SSH" \in DpPrinted /\ hostImage0 # NoImage

\* C15: the health verification starts only after the playbook, which applies the
\* configuration and activates the image, has completed successfully, and the
\* deployment ends with status 0 only after a health check that passed after it.
C15_PlaybookThenHealth ==
    /\ (dp_polls > 0 \/ dp_pc = "health")
         => ( "Deployment completed successfully!" \in DpPrinted
              /\ dp_playbooks = 1 /\ hostImage = DOCKER_IMAGE_TAG )
    /\ (dp_pc = "exit" /\ dp_exit = 0)
         => ( dp_polls = 1 /\ CurlF(Response(endpoint))
              /\ dp_log[Len(dp_log)] = "Health check passed"
              /\ dp_log[Len(dp_log) - 1] = "Deployment completed successfully!" )

\* C15 witness: a deployment has ended with status 0
C15_Witness ==
    dp_pc = "exit" /\ dp_exit = 0 /\ dp_polls = 1 /\ hostImage # hostImage0

\* C16: a deployment of the image the target already runs is a no-op: the playbook
\* is not run and the target is left as it is.
C16_SameArtifactIsNoOp ==
    (DOCKER_IMAGE_TAG = hostImage0) => (dp_playbooks = 0 /\ hostImage = hostImage0)

\* C13: at most one deploy or restore is in the middle of its remote steps on the
\* target at any time: no invocation runs a remote step while another has begun
\* changing the target and has not finished.
C13_OneActivePerTarget ==
    Cardinality({ p \in Procs : cc_pc[p] \in MidWay }) <= 1

\* C21: backup-restore.sh ends with status 0 only when no step of the requested
\* operation failed: a run that ends with status 0 has not reported the failure
\* of its drop step.
C21_ZeroExitOnlyOnSuccess ==
    (br_pc = "exit" /\ br_exit = 0) => ("Failed to drop existing database" \notin br_log)

\* C22: once the rollback playbook has completed, the health verification is run
\* against the target and, whatever its outcome, the run ends having printed the
\* rollback summary.
C22_SummaryAfterRollback ==
    (rb_pc = "exit" /\ "Rollback deployment completed!" \in rb_log)
        => (rb_polls >= 1 /\ RollbackSummary \in rb_log)

\* rollback.sh was given a tag with --tag that is not among the registry's tags
ExplicitTagMissing ==
    /\ rb_tagArg # << >>
    /\ \A i \in 1..Len(registryTags) : Word(registryTags[i]) # rb_tagArg

\* C29: a rollback to an explicitly given tag that the registry does not hold runs
\* no playbook and leaves the target as it was, and once the run has ended after
\* the confirmation it has reported the tag as not found and failed.
C29_MissingExplicitTagFails ==
    ExplicitTagMissing
        => /\ rb_playbooks = 0 /\ rb_polls = 0 /\ hostImage = hostImage0
           /\ (rb_pc = "exit" /\ rb_REPLY \in {"y", "Y"})
                => ( rb_exit = 1
                     /\ "Target image tag not found in Docker Hub" \in rb_log )

\* C29 witness: a confirmed rollback to a missing explicit tag has ended
C29_Witness ==
    /\ rb_pc = "exit" /\ ExplicitTagMissing
    /\ rb_REPLY \in {"y", "Y"} /\ hostImage0 # NoImage

\* C25: a deployment ended by a cancellation signal is in a terminal state: once
\* the script has ended with the signal's status, nothing of the attempt is still
\* running and the target is no longer changed by it.
C25_CancelledIsTerminal ==
    [][ (dp_exit \in SignalStatuses) => (dp_pc = "exit" /\ hostImage' = hostImage) ]_vars

\* C23: a restore reports success only after it has dropped the existing data
\* store, loaded the archive and verified that the data store is present after
\* the load.
C23_SuccessAfterDropLoadVerify ==
    (br_ACTION = "restore" /\ "Database restored successfully!" \in br_log)
        => ({"drop", "load", "verify"} \subseteq br_steps)

\* C24: list prints the backups most recent first: no backup older than the
\* retention threshold is listed before one that is not.
C24_ListedByRecency ==
    (br_ACTION = "list" /\ br_pc = "exit")
        => \A i, j \in 1..Len(br_listing) :
             (i < j) => ~( archives[br_listing[i]][1].old /\ ~archives[br_listing[j]][1].old )

\* a connect call that was made on the instance as constructed, as startServer
\* makes it
FirstConnect == cn_calls = 1

Answers(method, path) ==
    /\ td_count' = td_count + 1
    /\ td_res'.method = method
    /\ td_res'.path = path

\* C26: with the database up, the running application answers GET /todos with
\* status 200, success true and, as data, exactly the stored todos.
C26_GetTodosListsStore ==
    [][ (Answers("GET", "/todos") /\ td_res'.via = "app" /\ mongo = "up")
        => /\ td_res'.status = 200 /\ td_res'.success /\ td_res'.hasData
           /\ Len(td_res'.data) = Len(todos)
           /\ \A i \in 1..Len(todos) : \E j \in 1..Len(td_res'.data) : td_res'.data[j] = todos[i]
      ]_vars

\* C27: against a deployment whose endpoints all answer as the application's
\* handlers do, quickly and with the database connected, the health check script
\* records no failed check, prints 'All health checks passed!' and exits 0.
C27_HealthyDeploymentPasses ==
    ( /\ hk_pc = "exit"
      /\ hk_target = [health |-> "app_db_ok", todos |-> TRUE, speed |-> "fast", curl |-> TRUE] )
        => (FAILED_CHECKS = 0 /\ "All health checks passed!" \in hk_log /\ hk_exit = 0)

\* the step receives a request and answers it at once: it is not the completion
\* of a PUT that found its todo earlier
Received == td_put' = td_put

\* C28: with the database up, a GET, PUT or DELETE of /todos/:id whose id is
\* well-formed and is the id of no stored todo when the request is received is
\* answered 404 with success false, by the application and by the router alike,
\* and the step leaves the stored todos as they are.
C28_UnknownIdIsNotFound ==
    [][ \A method \in {"GET", "PUT", "DELETE"} :
          ( /\ Answers(method, "/todos/:id")
            /\ Received
            /\ td_res'.id \in ObjectIds
            /\ \A i \in 1..Len(todos) : todos[i].id # td_res'.id
            /\ mongo = "up" )
          => (td_res'.status = 404 /\ ~td_res'.success /\ todos' = todos)
      ]_vars

C28_Witness ==
    /\ td_res.via = "router" /\ td_res.method = "DELETE" /\ td_res.path = "/todos/:id"
    /\ td_res.id \in ObjectIds /\ td_res.status = 404
    /\ todos # << >> /\ mongo = "up"

\* C31: every connect call that throws has made maxRetries attempts, whether or
\* not an earlier call on the same instance has thrown before it.
C31_EveryCallHasFullBudget ==
    (cn_pc = "thrown") => cn_attempts = maxRetries

\* C38: a PUT answered 200 by the router carries the updated todo, and a todo of
\* that id is stored when the answer is sent.
C38_PutSucceedsOnlyOnUpdate ==
    [][ (Answers("PUT", "/todos/:id") /\ td_res'.via = "router" /\ td_res'.status = 200)
        => /\ td_res'.hasData
           /\ \E i \in 1..Len(todos') : todos'[i].id = td_res'.id
      ]_vars

\* C32: GET /health of the application answers 200 exactly when the database
\* health check reports healthy.
C32_HealthStatusReflectsStore ==
    (endpoint \in AppStates)
        => (Response(endpoint).code = 200 <=> Response(endpoint).dbStatus = "healthy")

\* the check groups of main that have recorded a result
GroupsRun ==
    { g \in {"basic", "health", "database", "times", "api"} :
        \E i \in 1..Len(HEALTH_CHECKS) :
           HEALTH_CHECKS[i].name \in
             (CASE g = "basic" -> {"Basic Connectivity"}
                [] g = "health" -> {"Health Endpoint"}
                [] g = "database" -> {"Database Connectivity"}
                [] g = "times" -> {"Response Time"}
                [] OTHER -> {"GET /todos"}) }

\* C33: when the health check script ends having recorded a failed check, all
\* five check groups have run, the results table has been displayed and the exit
\* status is 1.
C33_FailuresStillReported ==
    (hk_pc = "exit" /\ FAILED_CHECKS >= 1)
        => /\ Cardinality(GroupsRun) = 5
           /\ "=== HEALTH CHECK RESULTS ===" \in hk_log
           /\ hk_exit = 1

\* the lines of the crontab that run the backup job, and the other lines
JobLines == SelectSeq(crontab, LAMBDA l : \E k \in 1..Len(l) : l[k] = remote_script)
OtherLines == SelectSeq(crontab, LAMBDA l : \A k \in 1..Len(l) : l[k] # remote_script)

\* C35: however many times the schedule action has run, the crontab holds at
\* most one line for the backup job, exactly one once a run has reported the
\* schedule as configured, and the unrelated line is still there.
C35_ScheduleIsIdempotent ==
    /\ Len(JobLines) <= 1
    /\ OtherLines = << UnrelatedLine >>
    /\ ("Automated backup schedule configured!" \in br_log) => JobLines = << ScheduleLine >>

C35_Witness ==
    /\ br_runs = 2 /\ br_ACTION = "schedule" /\ br_pc = "exit" /\ br_exit = 0
    /\ crontab = << UnrelatedLine, ScheduleLine >>

\* C36: a restore changes the database only in its drop and load steps, which it
\* reaches only with the archive extracted and copied into the container; when
\* the extraction or the copy fails it ends with status 1 and the database as it
\* was.
C36_DropOnlyAfterExtractAndCopy ==
    [][ /\ (br_ACTION = "restore" /\ br_pc \notin {"idle", "exit"} /\ db' # db)
             => /\ br_pc \in {"drop", "load"}
                /\ archives[BACKUP_NAME] # Absent
                /\ hostDir[BACKUP_NAME] = << archives[BACKUP_NAME][1].data >>
                /\ containerTmp[BACKUP_NAME] = << archives[BACKUP_NAME][1].data >>
        /\ (br_pc = "extract" /\ br_pc' = "exit")
             => (br_exit' = 1 /\ db' = db /\ br_steps' = {})
      ]_vars

C36_Witness ==
    /\ br_ACTION = "restore" /\ br_pc = "exit" /\ br_exit = 1
    /\ "Failed to copy backup to container" \in br_log
    /\ db # {} /\ br_steps = {}

\* C37: the archives a confirmed cleanup deletes are exactly the archives that were
\* listed when the confirmation was asked for.
C37_DeletesWhatWasListed ==
    [][ (br_ACTION = "cleanup" /\ br_pc = "delete" /\ br_pc' = "exit")
        => { n \in BackupNames : archives[n] # Absent /\ archives'[n] = Absent }
             = old_backups ]_vars

\* the invocations of the current call that failed
RtFailures == { i \in 1..Len(rt_outcomes) : ~rt_outcomes[i] }

\* C34: a retry helper invokes the operation at most maxAttempts times, no
\* invocation follows a successful one and a success makes the helper return, and
\* when maxAttempts invocations have all failed the helper has thrown with one
\* wait fewer than invocations.
C34_RetryIsBounded ==
    /\ Len(rt_outcomes) <= rt_maxAttempts
    /\ \A i \in 1..Len(rt_outcomes) : rt_outcomes[i] => i = Len(rt_outcomes) /\ rt_pc = "returned"
    /\ Len(rt_delays) <= Cardinality(RtFailures)
    /\ (rt_maxAttempts >= 1 /\ Cardinality(RtFailures) = rt_maxAttempts)
         => (rt_pc = "thrown" /\ Len(rt_delays) = rt_maxAttempts - 1)

C34_Witness ==
    /\ rt_helper = "retryOperation" /\ rt_pc = "thrown" /\ rt_runs = 2
    /\ rt_maxAttempts = MaxRetryAttempts
    /\ Len(rt_outcomes) = rt_maxAttempts
    /\ Len(rt_delays) = rt_maxAttempts - 1

====
